---- MODULE Spec2Model ----
(***************************************************************************)
(* A model of the fli command-line engine: the option registry             *)
(* (CommandOptionsParser), the command tree (FliCommand), the parse-state  *)
(* machine (ParseState), the token scan (InputArgsParser::prepare) and the *)
(* dispatch (FliCommand::run).                                             *)
(*                                                                         *)
(* A string is the record [d, b]: d leading '-' characters followed by the *)
(* remainder b, which does not start with '-'.  Two strings are equal iff  *)
(* their records are, and trim_start_matches('-') and format!("-{}", ..)   *)
(* are computed on the record.                                             *)
(***************************************************************************)
EXTENDS Integers, Sequences, FiniteSets, TLC

\* ------------------------------------------------------------------ bounds
\* longest token vector handed to the parser
MaxArgs == 4
\* longest sequence of builder calls explored by SpecBuild
MaxOps == 4

\* ----------------------------------------------------------------- strings
S(d, b) == [d |-> d, b |-> b]
Str0(b) == S(0, b)
NoTok == S(0, "")
BreakTok == S(2, "")

\* str::trim_start_matches('-')
trim_start_matches(s) == S(0, s.b)
\* format!("-{}", s) / format!("--{}", s)
prepend_dashes(n, s) == S(s.d + n, s.b)

\* ------------------------------------------------------------------ values
\* Value::{Str, Int, Bool}
StrV(s) == [t |-> "Str", s |-> s, n |-> 0]
IntV(n) == [t |-> "Int", s |-> NoTok, n |-> n]
BoolV(b) == [t |-> "Bool", s |-> NoTok, n |-> IF b THEN 1 ELSE 0]

\* decimal digit strings the inputs are drawn from, with their value
DigitStrings == {"0", "1", "5"}
DecimalOf(b) == CASE b = "0" -> 0 [] b = "1" -> 1 [] b = "5" -> 5
\* str::parse::<i64>: an optional sign followed by digits
parse_i64(s) ==
    IF s.b \in DigitStrings /\ s.d \in {0, 1}
    THEN [ok |-> TRUE, n |-> IF s.d = 1 THEN 0 - DecimalOf(s.b) ELSE DecimalOf(s.b)]
    ELSE [ok |-> FALSE, n |-> 0]

TrueStrings == {"true", "t", "1", "yes", "y"}
FalseStrings == {"false", "f", "0", "no", "n"}

\* Value::replace_with_expected_value: re-type the token by the variant of v
replace_with_expected_value(v, s) ==
    CASE v.t = "Str" -> [ok |-> TRUE, val |-> StrV(s)]
      [] v.t = "Int" ->
            IF parse_i64(s).ok
            THEN [ok |-> TRUE, val |-> IntV(parse_i64(s).n)]
            ELSE [ok |-> FALSE, val |-> v]
      [] v.t = "Bool" ->
            IF s.d = 0 /\ s.b \in TrueStrings THEN [ok |-> TRUE, val |-> BoolV(TRUE)]
            ELSE IF s.d = 0 /\ s.b \in FalseStrings THEN [ok |-> TRUE, val |-> BoolV(FALSE)]
            ELSE [ok |-> FALSE, val |-> v]

\* ValueTypes.  vals holds the Value of a Single (empty for OptionalSingle(None))
\* or the Vec of a Multiple; some = FALSE is OptionalMultiple(None, _);
\* count = -1 is Option::None of the expected count.
NoCount == 0 - 1
VT(kind, vals, some, count) == [kind |-> kind, vals |-> vals, some |-> some, count |-> count]
VTNone == VT("None", <<>>, FALSE, NoCount)
RequiredSingle(v) == VT("RequiredSingle", <<v>>, TRUE, NoCount)
OptionalSingleSome(v) == VT("OptionalSingle", <<v>>, TRUE, NoCount)
OptionalSingleNone == VT("OptionalSingle", <<>>, FALSE, NoCount)
RequiredMultiple(vals, count) == VT("RequiredMultiple", vals, TRUE, count)
OptionalMultipleSome(vals, count) == VT("OptionalMultiple", vals, TRUE, count)
OptionalMultipleNone(count) == VT("OptionalMultiple", <<>>, FALSE, count)
\* placeholder in records that carry no ValueTypes
NoVT == VT("-", <<>>, FALSE, NoCount)

\* --------------------------------------------------------------- HashMap
EmptyMap == [k \in {} |-> 0]
insert(m, k, v) == [x \in (DOMAIN m) \cup {k} |-> IF x = k THEN v ELSE m[x]]
contains_key(m, k) == k \in DOMAIN m

\* ------------------------------------------------- CommandOptionsParser
\* indices are the 0-based Vec indices of the source; options[i + 1] is entry i
SingleOption(name, short, long, value) ==
    [name |-> name, short_flag |-> short, long_flag |-> long, value |-> value]

CommandOptionsParser_new ==
    [options |-> <<>>, short_option_map |-> EmptyMap,
     long_option_map |-> EmptyMap, inheritable_flags |-> <<>>]

\* HashMap::entry(..).or_insert(..): a flag already in a map keeps its index
add_option_keeping_first(p, option) ==
    LET index == Len(p.options) IN
    [p EXCEPT !.short_option_map = IF contains_key(@, option.short_flag) THEN @
                                   ELSE insert(@, option.short_flag, index),
              !.long_option_map = IF contains_key(@, option.long_flag) THEN @
                                  ELSE insert(@, option.long_flag, index),
              !.options = Append(p.options, option)]

add_option(p, option) ==
    LET index == Len(p.options) IN
    [p EXCEPT !.short_option_map = insert(p.short_option_map, option.short_flag, index),
              !.long_option_map = insert(p.long_option_map, option.long_flag, index),
              !.options = Append(p.options, option)]

\* CommandOptionsParserBuilder::add_option (the builder wraps one parser)
builder_add_option(p, name, short, long, value) ==
    add_option(p, SingleOption(name, short, long, value))

\* -1 stands for Option::None
get_option_position(p, flag) ==
    IF contains_key(p.short_option_map, flag) THEN p.short_option_map[flag]
    ELSE IF contains_key(p.long_option_map, flag) THEN p.long_option_map[flag]
    ELSE 0 - 1

has_option(p, flag) ==
    contains_key(p.short_option_map, flag) \/ contains_key(p.long_option_map, flag)

\* NoVT stands for Option::None
get_option_expected_value_type(p, flag) ==
    IF contains_key(p.short_option_map, flag)
       /\ p.short_option_map[flag] < Len(p.options)
    THEN p.options[p.short_option_map[flag] + 1].value
    ELSE IF contains_key(p.long_option_map, flag)
            /\ p.long_option_map[flag] < Len(p.options)
    THEN p.options[p.long_option_map[flag] + 1].value
    ELSE NoVT

\* the call answers Ok and stores nothing
update_option_value_discarding(p, flag, value) ==
    LET index == get_option_position(p, flag) IN
    IF index >= 0 /\ index < Len(p.options)
    THEN [ok |-> TRUE, p |-> p]
    ELSE [ok |-> FALSE, p |-> p]

update_option_value(p, flag, value) ==
    LET index == get_option_position(p, flag) IN
    IF index >= 0 /\ index < Len(p.options)
    THEN [ok |-> TRUE, p |-> [p EXCEPT !.options[index + 1].value = value]]
    ELSE [ok |-> FALSE, p |-> p]

SeqContains(s, x) == \E k \in 1..Len(s) : s[k] = x

\* lines 83..92 without the contains test of line 85
mark_inheritable_repeating(p, flag) ==
    LET index == get_option_position(p, flag) IN
    IF index >= 0
    THEN [ok |-> TRUE, p |-> [p EXCEPT !.inheritable_flags = Append(@, index)]]
    ELSE [ok |-> FALSE, p |-> p]

mark_inheritable(p, flag) ==
    LET index == get_option_position(p, flag) IN
    IF index >= 0
    THEN [ok |-> TRUE,
          p |-> IF SeqContains(p.inheritable_flags, index) THEN p
                ELSE [p EXCEPT !.inheritable_flags = Append(@, index)]]
    ELSE [ok |-> FALSE, p |-> p]

RECURSIVE mark_inheritable_many(_, _)
mark_inheritable_many(p, flags) ==
    IF flags = <<>> THEN [ok |-> TRUE, p |-> p, flag |-> NoTok]
    ELSE LET r == mark_inheritable(p, Head(flags)) IN
         IF r.ok THEN mark_inheritable_many(r.p, Tail(flags))
         ELSE [ok |-> FALSE, p |-> r.p, flag |-> Head(flags)]

RECURSIVE inherit_from(_, _, _)
inherit_from(p, k, builder) ==
    IF k > Len(p.inheritable_flags) THEN builder
    ELSE LET idx == p.inheritable_flags[k] IN
         inherit_from(p, k + 1,
            IF idx < Len(p.options)
            THEN LET opt == p.options[idx + 1] IN
                 builder_add_option(builder, opt.name, opt.short_flag, opt.long_flag, opt.value)
            ELSE builder)

\* every option is copied, marked or not
RECURSIVE copy_all_from(_, _, _)
copy_all_from(p, k, builder) ==
    IF k > Len(p.options) THEN builder
    ELSE copy_all_from(p, k + 1,
            builder_add_option(builder, p.options[k].name, p.options[k].short_flag,
                               p.options[k].long_flag, p.options[k].value))
inheritable_options_builder_all(p) == copy_all_from(p, 1, CommandOptionsParser_new)

inheritable_options_builder(p) == inherit_from(p, 1, CommandOptionsParser_new)

\* -------------------------------------------------------------- FliCommand
\* a callback is a function pointer: modelled by its name, NoCallback = None
NoCallback == "-"
\* the closure of setup_help_flag: prints the help and calls process::exit(0)
HelpCallback == "help"

PreservedOption(short, long, value, callback) ==
    [short_flag |-> short, long_flag |-> long, value_type |-> value, callback |-> callback]

\* lines 625..664 without the registration of lines 635..641
add_option_with_callback_unregistered(node, name, short, long, value, callback) ==
    LET idx == Len(node.preserved_options) IN
    [node EXCEPT
       !.preserved_short_flags = IF short # NoTok THEN insert(@, short, idx) ELSE @,
       !.preserved_long_flags = IF long # NoTok THEN insert(@, long, idx) ELSE @,
       !.preserved_options = Append(@, PreservedOption(short, long, value, callback))]

\* add_option_with_callback on a node
add_option_with_callback(node, name, short, long, value, callback) ==
    LET idx == Len(node.preserved_options) IN
    [node EXCEPT
       !.option_parser = builder_add_option(node.option_parser, name, short, long, value),
       !.preserved_short_flags = IF short # NoTok THEN insert(@, short, idx) ELSE @,
       !.preserved_long_flags = IF long # NoTok THEN insert(@, long, idx) ELSE @,
       !.preserved_options = Append(@, PreservedOption(short, long, value, callback))]

setup_help_flag(node) ==
    add_option_with_callback(node, "help", S(1, "h"), S(2, "help"), VTNone, HelpCallback)

\* lines 277..296 without the call of line 294
with_parser_without_help(name, parser_builder) ==
    [name |-> name,
     option_parser |-> parser_builder,
     callback |-> NoCallback,
     preserved_options |-> <<>>,
     preserved_short_flags |-> EmptyMap,
     preserved_long_flags |-> EmptyMap,
     expected_positional_args |-> 0]

with_parser(name, parser_builder) ==
    setup_help_flag(
        [name |-> name,
         option_parser |-> parser_builder,
         callback |-> NoCallback,
         preserved_options |-> <<>>,
         preserved_short_flags |-> EmptyMap,
         preserved_long_flags |-> EmptyMap,
         expected_positional_args |-> 0])

FliCommand_new(name) == with_parser(name, CommandOptionsParser_new)

set_expected_positional_args(node, count) == [node EXCEPT !.expected_positional_args = count]
set_callback(node, callback) == [node EXCEPT !.callback = callback]
cmd_add_option(node, name, short, long, value) ==
    [node EXCEPT !.option_parser = builder_add_option(@, name, short, long, value)]

\* only the short-flag map is consulted
lookup_preserved_short_only(node, v) ==
    IF contains_key(node.preserved_short_flags, v) THEN node.preserved_short_flags[v]
    ELSE 0 - 1

\* index into preserved_options of the match, -1 for None
lookup_preserved(node, v) ==
    IF contains_key(node.preserved_short_flags, v) THEN node.preserved_short_flags[v]
    ELSE IF contains_key(node.preserved_long_flags, v) THEN node.preserved_long_flags[v]
    ELSE 0 - 1

\* only the lookups of lines 680..685, without the normalised variants
get_preserved_option_exact(node, name) == lookup_preserved(node, name)

get_preserved_option(node, name) ==
    LET trimmed == trim_start_matches(name)
        v1 == prepend_dashes(1, trimmed)
        v2 == prepend_dashes(2, trimmed)
    IN  IF lookup_preserved(node, name) >= 0 THEN lookup_preserved(node, name)
        ELSE IF lookup_preserved(node, v1) >= 0 THEN lookup_preserved(node, v1)
        ELSE IF lookup_preserved(node, v2) >= 0 THEN lookup_preserved(node, v2)
        ELSE lookup_preserved(node, trimmed)

\* ------------------------------------------------------------ command tree
\* The tree of FliCommand values is the function path -> node, a path being
\* the sequence of sub_commands keys leading from the root; the root is <<>>.
IsPrefix(p, q) == Len(p) <= Len(q) /\ SubSeq(q, 1, Len(p)) = p
child_names(t, path) ==
    {q[Len(q)] : q \in {r \in DOMAIN t : Len(r) = Len(path) + 1 /\ IsPrefix(path, r)}}
has_sub_command(t, path, name) == Append(path, name) \in DOMAIN t

\* add_sub_command: HashMap::insert replaces a child of the same name whole
add_sub_command(t, path, command) ==
    LET at == Append(path, command.name)
        kept == {q \in DOMAIN t : ~IsPrefix(at, q)}
    IN  [q \in kept \cup {at} |-> IF q = at THEN command ELSE t[q]]

\* the child is made with every inherited option already marked inheritable
subcommand_keeping_marks(t, path, name) ==
    LET inherited_builder == inheritable_options_builder(t[path].option_parser)
        marked == [inherited_builder EXCEPT
                      !.inheritable_flags = [k \in 1..Len(inherited_builder.options) |-> k - 1]]
    IN  add_sub_command(t, path, with_parser(name, marked))

subcommand(t, path, name) ==
    LET inherited_builder == inheritable_options_builder(t[path].option_parser) IN
    add_sub_command(t, path, with_parser(name, inherited_builder))

tree_new(name) == [q \in {<<>>} |-> FliCommand_new(name)]
at_node(t, path, node) == [t EXCEPT ![path] = node]

\* -------------------------------------------------------------- ParseState
PS(tag) == [tag |-> tag, opt |-> NoTok, vt |-> NoVT]
AcceptingValue(option_name, expected) ==
    [tag |-> "AcceptingValue", opt |-> option_name, vt |-> expected]

\* can_go_to_next with InArgument removed from the sources of InOption
can_go_to_next_no_flag_after_argument(self, next) ==
    CASE next.tag = "Start" -> FALSE
      [] next.tag = "InCommand" -> self.tag \in {"Start", "InCommand"}
      [] next.tag = "InOption" ->
            self.tag \in {"Start", "InCommand", "InOption", "AcceptingValue"}
      [] next.tag = "AcceptingValue" -> self.tag = "InOption"
      [] next.tag = "InArgument" ->
            self.tag \in {"Start", "InCommand", "Breaking", "InArgument"}
      [] next.tag = "Breaking" -> self.tag \in {"InOption", "AcceptingValue"}
      [] next.tag = "End" -> self.tag # "Start"

can_go_to_next(self, next) ==
    CASE next.tag = "Start" -> FALSE
      [] next.tag = "InCommand" -> self.tag \in {"Start", "InCommand"}
      [] next.tag = "InOption" ->
            self.tag \in {"Start", "InCommand", "InArgument", "InOption", "AcceptingValue"}
      [] next.tag = "AcceptingValue" -> self.tag = "InOption"
      [] next.tag = "InArgument" ->
            self.tag \in {"Start", "InCommand", "Breaking", "InArgument"}
      [] next.tag = "Breaking" -> self.tag \in {"InOption", "AcceptingValue"}
      [] next.tag = "End" -> self.tag # "Start"

\* the transition is applied without consulting can_go_to_next
set_next_mode_unvalidated(self, next) == [ok |-> TRUE, state |-> next]

set_next_mode(self, next) ==
    IF can_go_to_next(self, next) THEN [ok |-> TRUE, state |-> next]
    ELSE [ok |-> FALSE, state |-> self]

\* ------------------------------------------------------------ CommandChain
SubCommandEntry(name) == [kind |-> "SubCommand", tok |-> name, vt |-> NoVT]
OptionEntry(flag, value) == [kind |-> "Option", tok |-> flag, vt |-> value]
ArgumentEntry(arg) == [kind |-> "Argument", tok |-> arg, vt |-> NoVT]
IsPreservedOptionEntry(flag) == [kind |-> "IsPreservedOption", tok |-> flag, vt |-> NoVT]

\* ------------------------------------------------------------------ errors
Ok == [kind |-> "Ok", tok |-> NoTok, pos |-> 0, names |-> {}]
Unset == [kind |-> "-", tok |-> NoTok, pos |-> 0, names |-> {}]
\* the process left through std::process::exit(0) inside a callback
Exited == [kind |-> "Exit0", tok |-> NoTok, pos |-> 0, names |-> {}]
Err(kind, tok) == [kind |-> kind, tok |-> tok, pos |-> 0, names |-> {}]
UnexpectedToken(tok, position) ==
    [kind |-> "UnexpectedToken", tok |-> tok, pos |-> position, names |-> {}]
UnknownCommand(tok, available) ==
    [kind |-> "UnknownCommand", tok |-> tok, pos |-> 0, names |-> available]
CommandMismatch(expected, actual) ==
    [kind |-> "CommandMismatch", tok |-> actual, pos |-> 0, names |-> {expected}]

\* ------------------------------------------------------------------- state
VARIABLES
    tree,       \* the FliCommand tree: path -> node
    parser,     \* the InputArgsParser handed to run / prepare
    state,      \* prepare's local ParseState
    i,          \* prepare's cursor into parser.args
    cur,        \* path of the node prepare is currently called with
    pc,         \* "build" | "idle" | "scan" | "dispatch" | "done"; "machine", "registry", "lookup", "tables" in the specifications of one component
    result,     \* what prepare / run returned
    run_self,   \* path of the node whose run is executing
    run_parser, \* the arg_parser of that run invocation
    invoked,    \* the callbacks called so far, with their FliCallbackData
    input,      \* the token vector the parser was constructed with, or the flags
                \* handed to mark_inheritable_many, add_option(_with_callback)
    broke,      \* a `--` token has been accepted by prepare
    ops,        \* number of calls the program has made on the tree or the parser
    last_call   \* the builder call made last: which, on which node, with what

vars == <<tree, parser, state, i, cur, pc, result, run_self, run_parser,
          invoked, input, broke, ops, last_call>>

NoCall == [op |-> "-", path |-> <<>>, tok |-> NoTok]
Call(op, path, tok) == [op |-> op, path |-> path, tok |-> tok]

InputArgsParser_new(command, args) ==
    [command |-> command, args |-> args, command_chain |-> <<>>, is_prepared |-> FALSE]

\* all token vectors of length 0..n over the set toks
RECURSIVE SeqsUpTo(_, _)
SeqsUpTo(toks, n) ==
    IF n = 0 THEN {<<>>}
    ELSE LET shorter == SeqsUpTo(toks, n - 1) IN
         shorter \cup {Append(a, t) : a \in {b \in shorter : Len(b) = n - 1}, t \in toks}

\* ------------------------------------------------- InputArgsParser::prepare
\* The head of prepare, run on the first call and again on every recursive
\* call for a subcommand: the is_prepared test, the name check and the
\* Start -> InCommand step.
\* the head of prepare without the test of lines 121..124
prepare_entry_unguarded(p, node) ==
    IF p.command # node.name
    THEN [kind |-> "error", err |-> CommandMismatch(node.name, p.command), state |-> PS("Start")]
    ELSE LET r == set_next_mode(PS("Start"), PS("InCommand")) IN
         IF r.ok THEN [kind |-> "scan", err |-> Ok, state |-> r.state]
         ELSE [kind |-> "error", err |-> Err("InvalidStateTransition", NoTok), state |-> r.state]

prepare_entry(p, node) ==
    IF p.is_prepared THEN [kind |-> "prepared", err |-> Ok, state |-> PS("Start")]
    ELSE IF p.command # node.name
    THEN [kind |-> "error", err |-> CommandMismatch(node.name, p.command), state |-> PS("Start")]
    ELSE LET r == set_next_mode(PS("Start"), PS("InCommand")) IN
         IF r.ok THEN [kind |-> "scan", err |-> Ok, state |-> r.state]
         ELSE [kind |-> "error", err |-> Err("InvalidStateTransition", NoTok), state |-> r.state]

arg == parser.args[i + 1]
\* the recursive call is handed the node it was called on instead of the child
command_of_caller == tree[<<>>]
command == tree[cur]
push(entry) == [parser EXCEPT !.command_chain = Append(@, entry)]
Scanning == pc = "scan" /\ i < Len(parser.args)
\* the token reaches the lookups of lines 327..391
AtLookup == Scanning /\ arg # BreakTok /\ state.tag \notin {"Breaking", "AcceptingValue"}

\* the frame of a step that returns Err(e) from prepare
Fails(e) ==
    /\ pc' = "done"
    /\ result' = e
    /\ UNCHANGED <<i, cur, run_self, run_parser, invoked, input, broke, ops, last_call>>

\* the head of prepare without the name check of lines 128..133
prepare_enter_any_name ==
    /\ pc = "idle"
    /\ LET e == prepare_entry([parser EXCEPT !.command = tree[<<>>].name], tree[<<>>]) IN
       CASE e.kind = "scan" ->
              /\ state' = e.state /\ i' = 0 /\ cur' = <<>> /\ pc' = "scan"
              /\ UNCHANGED <<tree, parser, result, run_self, run_parser, invoked,
                             input, broke, ops, last_call>>
         [] e.kind = "error" ->
              /\ Fails(e.err) /\ UNCHANGED <<tree, parser, state>>
         [] e.kind = "prepared" ->
              /\ pc' = "dispatch" /\ run_self' = <<>> /\ run_parser' = parser
              /\ UNCHANGED <<tree, parser, state, i, cur, result, invoked, input,
                             broke, ops, last_call>>

\* run(): arg_parser.prepare(self) on the root, up to the first loop test
prepare_enter ==
    /\ pc = "idle"
    /\ LET e == prepare_entry(parser, tree[<<>>]) IN
       CASE e.kind = "scan" ->
              /\ state' = e.state /\ i' = 0 /\ cur' = <<>> /\ pc' = "scan"
              /\ UNCHANGED <<tree, parser, result, run_self, run_parser, invoked,
                             input, broke, ops, last_call>>
         [] e.kind = "error" ->
              /\ Fails(e.err) /\ UNCHANGED <<tree, parser, state>>
         [] e.kind = "prepared" ->
              /\ pc' = "dispatch" /\ run_self' = <<>> /\ run_parser' = parser
              /\ UNCHANGED <<tree, parser, state, i, cur, result, invoked, input,
                             broke, ops, last_call>>

\* the break symbol is taken in every state that has left Start
scan_break_anywhere ==
    /\ Scanning /\ arg = BreakTok
    /\ state' = PS("Breaking") /\ i' = i + 1 /\ broke' = TRUE
    /\ UNCHANGED <<tree, parser, cur, pc, result, run_self, run_parser,
                   invoked, input, ops, last_call>>

\* lines 142..157: the break symbol
scan_break ==
    /\ Scanning /\ arg = BreakTok
    /\ IF state.tag \in {"InOption", "AcceptingValue"}
       THEN LET r == set_next_mode(state, PS("Breaking")) IN
            IF r.ok
            THEN /\ state' = r.state /\ i' = i + 1 /\ broke' = TRUE
                 /\ UNCHANGED <<tree, parser, cur, pc, result, run_self, run_parser,
                                invoked, input, ops, last_call>>
            ELSE /\ pc' = "done" /\ result' = Err("InvalidStateTransition", arg)
                 /\ UNCHANGED <<tree, parser, state, i, cur, run_self, run_parser,
                                invoked, input, broke, ops, last_call>>
       ELSE /\ Fails(UnexpectedToken(BreakTok, i))
            /\ UNCHANGED <<tree, parser, state>>

\* lines 159..166: a token met in the Breaking state
scan_after_break ==
    /\ Scanning /\ arg # BreakTok /\ state.tag = "Breaking"
    /\ parser' = push(ArgumentEntry(arg))
    /\ LET r == set_next_mode(state, PS("InArgument")) IN
       IF r.ok
       THEN /\ state' = r.state /\ i' = i + 1
            /\ UNCHANGED <<tree, cur, pc, result, run_self, run_parser, invoked,
                           input, broke, ops, last_call>>
       ELSE /\ Fails(Err("InvalidStateTransition", arg)) /\ UNCHANGED <<tree, state>>

\* lines 327..334: the token matches the preserved table
scan_preserved ==
    /\ AtLookup
    /\ get_preserved_option(command, arg) >= 0
    /\ parser' = push(IsPreservedOptionEntry(arg))
    /\ LET r == set_next_mode(state, PS("InOption")) IN
       IF r.ok
       THEN /\ state' = r.state /\ i' = i + 1
            /\ UNCHANGED <<tree, cur, pc, result, run_self, run_parser, invoked,
                           input, broke, ops, last_call>>
       ELSE /\ Fails(Err("InvalidStateTransition", arg)) /\ UNCHANGED <<tree, state>>

\* the flag is noted only in the parse state, never in the chain
flag_entries_unrecorded(flag, expected) == <<>>

\* lines 343..349: what sighting a flag of arity `expected` appends to the chain
flag_entries(flag, expected) ==
    IF expected.kind = "None" THEN <<OptionEntry(flag, VTNone)>> ELSE <<>>

\* lines 343..358 with the second arm taken for every arity
flag_next_state_always_accepting(self, flag, expected) ==
    LET r1 == set_next_mode(self, PS("InOption")) IN
    IF ~r1.ok THEN r1
    ELSE set_next_mode(r1.state, AcceptingValue(flag, expected))

\* lines 343..358: the state after the flag; a flag that takes values goes
\* through InOption into AcceptingValue
flag_next_state(self, flag, expected) ==
    LET r1 == set_next_mode(self, PS("InOption")) IN
    IF expected.kind = "None" \/ ~r1.ok THEN r1
    ELSE set_next_mode(r1.state, AcceptingValue(flag, expected))

\* lines 336..361 without the increment of line 360
scan_option_without_advance ==
    /\ AtLookup
    /\ get_preserved_option(command, arg) < 0
    /\ has_option(command.option_parser, arg)
    /\ LET expected == get_option_expected_value_type(command.option_parser, arg)
           r == flag_next_state(state, arg, expected)
       IN  IF expected = NoVT
           THEN /\ Fails(Err("OptionNotFound", arg)) /\ UNCHANGED <<tree, parser, state>>
           ELSE /\ parser' = [parser EXCEPT !.command_chain = @ \o flag_entries(arg, expected)]
                /\ IF r.ok
                   THEN /\ state' = r.state
                        /\ UNCHANGED <<tree, i, cur, pc, result, run_self, run_parser,
                                       invoked, input, broke, ops, last_call>>
                   ELSE /\ Fails(Err("InvalidStateTransition", arg))
                        /\ UNCHANGED <<tree, state>>

\* lines 336..361: the token is a flag of the node's registry
scan_option ==
    /\ AtLookup
    /\ get_preserved_option(command, arg) < 0
    /\ has_option(command.option_parser, arg)
    /\ LET expected == get_option_expected_value_type(command.option_parser, arg)
           r == flag_next_state(state, arg, expected)
       IN  IF expected = NoVT
           THEN /\ Fails(Err("OptionNotFound", arg)) /\ UNCHANGED <<tree, parser, state>>
           ELSE /\ parser' = [parser EXCEPT !.command_chain = @ \o flag_entries(arg, expected)]
                /\ IF r.ok
                   THEN /\ state' = r.state /\ i' = i + 1
                        /\ UNCHANGED <<tree, cur, pc, result, run_self, run_parser,
                                       invoked, input, broke, ops, last_call>>
                   ELSE /\ Fails(Err("InvalidStateTransition", arg))
                        /\ UNCHANGED <<tree, state>>

\* the lines 364..368 that the source has commented out: the name is
\* recorded and the loop goes on in the state InCommand on the same call
scan_subcommand_in_place ==
    /\ AtLookup
    /\ get_preserved_option(command, arg) < 0
    /\ ~has_option(command.option_parser, arg)
    /\ has_sub_command(tree, cur, arg)
    /\ parser' = push(SubCommandEntry(arg))
    /\ LET r == set_next_mode(state, PS("InCommand")) IN
       IF r.ok
       THEN /\ state' = r.state /\ i' = i + 1 /\ cur' = Append(cur, arg)
            /\ UNCHANGED <<tree, pc, result, run_self, run_parser, invoked,
                           input, broke, ops, last_call>>
       ELSE /\ Fails(Err("InvalidStateTransition", arg)) /\ UNCHANGED <<tree, state>>

\* lines 363..377: the token names a child; prepare calls itself on the child
scan_subcommand ==
    /\ AtLookup
    /\ get_preserved_option(command, arg) < 0
    /\ ~has_option(command.option_parser, arg)
    /\ has_sub_command(tree, cur, arg)
    /\ LET pushed == push(SubCommandEntry(arg))
           p2 == [pushed EXCEPT !.command = arg,
                                !.args = SubSeq(parser.args, i + 2, Len(parser.args))]
           e == prepare_entry(p2, tree[Append(cur, arg)])
       IN  /\ parser' = p2
           /\ CASE e.kind = "scan" ->
                    /\ state' = e.state /\ i' = 0 /\ cur' = Append(cur, arg)
                    /\ UNCHANGED <<tree, pc, result, run_self, run_parser, invoked,
                                   input, broke, ops, last_call>>
                [] e.kind = "error" -> Fails(e.err) /\ UNCHANGED <<tree, state>>
                [] e.kind = "prepared" ->
                    /\ pc' = "dispatch" /\ run_self' = <<>> /\ run_parser' = p2
                    /\ UNCHANGED <<tree, state, i, cur, result, invoked, input,
                                   broke, ops, last_call>>

\* the test of lines 379..381 without its second conjunct
ExpectsCommandName_anywhere == command.expected_positional_args <= 0

ExpectsCommandName ==
    /\ command.expected_positional_args <= 0
    /\ \/ state.tag \in {"Start", "InCommand"}
       \/ /\ parser.command_chain # <<>>
          /\ parser.command_chain[Len(parser.command_chain)].kind = "SubCommand"

Unrecognized ==
    /\ AtLookup
    /\ get_preserved_option(command, arg) < 0
    /\ ~has_option(command.option_parser, arg)
    /\ ~has_sub_command(tree, cur, arg)

\* lines 379..385 with the push of line 388 done before the test
scan_unknown_recording ==
    /\ Unrecognized /\ ExpectsCommandName
    /\ parser' = push(ArgumentEntry(arg))
    /\ Fails(UnknownCommand(arg, child_names(tree, cur)))
    /\ UNCHANGED <<tree, state>>

\* lines 379..385
scan_unknown ==
    /\ Unrecognized /\ ExpectsCommandName
    /\ Fails(UnknownCommand(arg, child_names(tree, cur)))
    /\ UNCHANGED <<tree, parser, state>>

\* lines 387..391 with the result of set_next_mode ignored
scan_argument_unchecked ==
    /\ Unrecognized /\ ~ExpectsCommandName
    /\ parser' = push(ArgumentEntry(arg))
    /\ state' = PS("InArgument") /\ i' = i + 1
    /\ UNCHANGED <<tree, cur, pc, result, run_self, run_parser, invoked,
                   input, broke, ops, last_call>>

\* lines 387..391
scan_argument ==
    /\ Unrecognized /\ ~ExpectsCommandName
    /\ parser' = push(ArgumentEntry(arg))
    /\ LET r == set_next_mode(state, PS("InArgument")) IN
       IF r.ok
       THEN /\ state' = r.state /\ i' = i + 1
            /\ UNCHANGED <<tree, cur, pc, result, run_self, run_parser, invoked,
                           input, broke, ops, last_call>>
       ELSE /\ Fails(Err("InvalidStateTransition", arg)) /\ UNCHANGED <<tree, state>>

\* the inner while loops of lines 225..244 and 274..300, from cursor j
RECURSIVE collect_values(_, _, _, _, _, _)
collect_values(args, j, values, count, defaults, registry) ==
    IF j >= Len(args) \/ (count # NoCount /\ Len(values) >= count)
    THEN [ok |-> TRUE, values |-> values, i |-> j, bad |-> NoTok]
    ELSE LET current_arg == args[j + 1] IN
         IF has_option(registry, current_arg) \/ current_arg = BreakTok
         THEN [ok |-> TRUE, values |-> values, i |-> j, bad |-> NoTok]
         ELSE LET template == IF Len(values) < Len(defaults)
                              THEN defaults[Len(values) + 1] ELSE StrV(NoTok)
                  r == replace_with_expected_value(template, current_arg)
              IN  IF r.ok
                  THEN collect_values(args, j + 1, Append(values, r.val), count,
                                      defaults, registry)
                  ELSE [ok |-> FALSE, values |-> values, i |-> j, bad |-> current_arg]

\* What one pass through lines 169..325 does for the pending option:
\* err (Ok if none), the entries pushed, the value committed, the new cursor.
ValueStep(err, pushes, commits, cursor) ==
    [err |-> err, push |-> pushes, commit |-> commits, i |-> cursor]

\* lines 171..190, without the test of line 173
accept_required_single_any(option_name, default, a, j, registry) ==
    LET r == replace_with_expected_value(default, a) IN
    IF ~r.ok THEN ValueStep(Err("ValueParseError", a), <<>>, <<>>, j)
    ELSE ValueStep(Ok, <<OptionEntry(option_name, RequiredSingle(r.val))>>,
                   <<RequiredSingle(r.val)>>, j + 1)

\* lines 171..190
accept_required_single(option_name, default, a, j, registry) ==
    IF has_option(registry, a)
    THEN ValueStep(Err("MissingValue", option_name), <<>>, <<>>, j)
    ELSE LET r == replace_with_expected_value(default, a) IN
         IF ~r.ok THEN ValueStep(Err("ValueParseError", a), <<>>, <<>>, j)
         ELSE ValueStep(Ok, <<OptionEntry(option_name, RequiredSingle(r.val))>>,
                        <<RequiredSingle(r.val)>>, j + 1)

\* lines 191..219
accept_optional_single(option_name, expected, a, j, registry) ==
    IF has_option(registry, a)
    THEN ValueStep(Ok, <<OptionEntry(option_name, OptionalSingleNone)>>, <<>>, j)
    ELSE LET template == IF expected.vals # <<>> THEN expected.vals[1] ELSE StrV(NoTok)
             r == replace_with_expected_value(template, a)
         IN  IF ~r.ok THEN ValueStep(Err("ValueParseError", a), <<>>, <<>>, j)
             ELSE ValueStep(Ok, <<OptionEntry(option_name, OptionalSingleSome(r.val))>>,
                            <<OptionalSingleSome(r.val)>>, j + 1)

\* lines 220..268, with the values collected ahead of a token that fails
\* re-typing pushed and committed before the error is returned
accept_required_multiple_keeping_partial(option_name, expected, args, j, registry) ==
    LET c == collect_values(args, j, <<>>, expected.count, expected.vals, registry) IN
    IF ~c.ok
    THEN ValueStep(Err("ValueParseError", c.bad),
            <<OptionEntry(option_name, RequiredMultiple(c.values, expected.count))>>,
            <<RequiredMultiple(c.values, expected.count)>>, c.i)
    ELSE IF c.values = <<>>
    THEN ValueStep(Err("MissingValue", option_name), <<>>, <<>>, c.i)
    ELSE IF expected.count # NoCount /\ Len(c.values) # expected.count
    THEN ValueStep(Err("MissingValue", option_name), <<>>, <<>>, c.i)
    ELSE ValueStep(Ok,
            <<OptionEntry(option_name, RequiredMultiple(c.values, expected.count))>>,
            <<RequiredMultiple(c.values, expected.count)>>, c.i)

\* lines 220..268
accept_required_multiple(option_name, expected, args, j, registry) ==
    LET c == collect_values(args, j, <<>>, expected.count, expected.vals, registry) IN
    IF ~c.ok THEN ValueStep(Err("ValueParseError", c.bad), <<>>, <<>>, c.i)
    ELSE IF c.values = <<>>
    THEN ValueStep(Err("MissingValue", option_name), <<>>, <<>>, c.i)
    ELSE IF expected.count # NoCount /\ Len(c.values) # expected.count
    THEN ValueStep(Err("MissingValue", option_name), <<>>, <<>>, c.i)
    ELSE ValueStep(Ok,
            <<OptionEntry(option_name, RequiredMultiple(c.values, expected.count))>>,
            <<RequiredMultiple(c.values, expected.count)>>, c.i)

\* lines 269..317
accept_optional_multiple(option_name, expected, args, j, registry) ==
    LET c == collect_values(args, j, <<>>, expected.count,
                            IF expected.some THEN expected.vals ELSE <<>>, registry)
        option_value == IF c.values = <<>> THEN OptionalMultipleNone(expected.count)
                        ELSE OptionalMultipleSome(c.values, expected.count)
    IN  IF ~c.ok THEN ValueStep(Err("ValueParseError", c.bad), <<>>, <<>>, c.i)
        ELSE ValueStep(Ok, <<OptionEntry(option_name, option_value)>>,
                       <<option_value>>, c.i)

\* the match of lines 170..324 on the arity of the pending option
accept_value(option_name, expected, args, j, registry) ==
    CASE expected.kind = "RequiredSingle" ->
            accept_required_single(option_name, expected.vals[1], args[j + 1], j, registry)
      [] expected.kind = "OptionalSingle" ->
            accept_optional_single(option_name, expected, args[j + 1], j, registry)
      [] expected.kind = "RequiredMultiple" ->
            accept_required_multiple(option_name, expected, args, j, registry)
      [] expected.kind = "OptionalMultiple" ->
            accept_optional_multiple(option_name, expected, args, j, registry)
      [] OTHER -> ValueStep(Err("Internal", option_name), <<>>, <<>>, j)

\* lines 168..325: the token is met while an option awaits its value
scan_value ==
    /\ Scanning /\ arg # BreakTok /\ state.tag = "AcceptingValue"
    /\ LET v == accept_value(state.opt, state.vt, parser.args, i, command.option_parser)
           u == IF v.commit = <<>> THEN [ok |-> TRUE, p |-> command.option_parser]
                ELSE update_option_value(command.option_parser, state.opt, v.commit[1])
           r == set_next_mode(state, PS("InOption"))
       IN  /\ parser' = [parser EXCEPT !.command_chain = @ \o v.push]
           /\ tree' = [tree EXCEPT ![cur].option_parser = u.p]
           /\ IF v.err # Ok THEN Fails(v.err) /\ UNCHANGED state
              ELSE IF ~u.ok THEN Fails(Err("OptionNotFound", state.opt)) /\ UNCHANGED state
              ELSE IF ~r.ok
              THEN Fails(Err("InvalidStateTransition", arg)) /\ UNCHANGED state
              ELSE /\ state' = r.state /\ i' = v.i
                   /\ UNCHANGED <<cur, pc, result, run_self, run_parser, invoked,
                                  input, broke, ops, last_call>>

\* lines 394..419 without the arm of lines 397..399: a pending option that
\* requires a value is let through
prepare_finish_lenient ==
    /\ pc = "scan" /\ i >= Len(parser.args)
    /\ LET pending == state.tag = "AcceptingValue"
           absent == IF state.vt.kind = "OptionalSingle" THEN OptionalSingleNone
                     ELSE OptionalMultipleNone(state.vt.count)
           optional == pending /\ state.vt.kind \in {"OptionalSingle", "OptionalMultiple"}
           chain == IF optional THEN Append(parser.command_chain, OptionEntry(state.opt, absent))
                    ELSE parser.command_chain
           r == set_next_mode(state, PS("End"))
       IN  IF ~r.ok
           THEN /\ parser' = [parser EXCEPT !.command_chain = chain]
                /\ Fails(Err("InvalidStateTransition", NoTok)) /\ UNCHANGED <<tree, state>>
           ELSE /\ parser' = [parser EXCEPT !.command_chain = chain, !.is_prepared = TRUE]
                /\ state' = r.state
                /\ pc' = "dispatch" /\ run_self' = <<>> /\ run_parser' = parser'
                /\ UNCHANGED <<tree, i, cur, result, invoked, input, broke, ops, last_call>>

\* lines 394..419: the loop is over
prepare_finish ==
    /\ pc = "scan" /\ i >= Len(parser.args)
    /\ LET pending == state.tag = "AcceptingValue"
           required == pending /\ state.vt.kind \in {"RequiredSingle", "RequiredMultiple"}
           absent == IF state.vt.kind = "OptionalSingle" THEN OptionalSingleNone
                     ELSE OptionalMultipleNone(state.vt.count)
           optional == pending /\ state.vt.kind \in {"OptionalSingle", "OptionalMultiple"}
           chain == IF optional THEN Append(parser.command_chain, OptionEntry(state.opt, absent))
                    ELSE parser.command_chain
           r == set_next_mode(state, PS("End"))
       IN  IF required
           THEN /\ Fails(Err("MissingValue", state.opt)) /\ UNCHANGED <<tree, parser, state>>
           ELSE IF ~r.ok
           THEN /\ parser' = [parser EXCEPT !.command_chain = chain]
                /\ Fails(Err("InvalidStateTransition", NoTok)) /\ UNCHANGED <<tree, state>>
           ELSE /\ parser' = [parser EXCEPT !.command_chain = chain, !.is_prepared = TRUE]
                /\ state' = r.state
                /\ pc' = "dispatch" /\ run_self' = <<>> /\ run_parser' = parser'
                /\ UNCHANGED <<tree, i, cur, result, invoked, input, broke, ops, last_call>>

\* ---------------------------------------------------------- FliCommand::run
run_chain == run_parser.command_chain
\* index of the first SubCommand marker of the segment, 0 if there is none
first_subcommand(chain) ==
    IF \E k \in 1..Len(chain) : chain[k].kind = "SubCommand"
    THEN CHOOSE k \in 1..Len(chain) :
            /\ chain[k].kind = "SubCommand"
            /\ \A m \in 1..(k - 1) : chain[m].kind # "SubCommand"
    ELSE 0
\* the part of the chain the for loop of lines 816..835 visits
visited(chain) ==
    IF first_subcommand(chain) = 0 THEN chain
    ELSE SubSeq(chain, 1, first_subcommand(chain) - 1)

RECURSIVE collect_arguments(_)
collect_arguments(seg) ==
    IF seg = <<>> THEN <<>>
    ELSE IF Head(seg).kind = "Argument"
    THEN <<Head(seg).tok>> \o collect_arguments(Tail(seg))
    ELSE collect_arguments(Tail(seg))

\* the last IsPreservedOption the loop met, NoTok for None
RECURSIVE last_preserved(_)
last_preserved(seg) ==
    IF seg = <<>> THEN NoTok
    ELSE IF seg[Len(seg)].kind = "IsPreservedOption" THEN seg[Len(seg)].tok
    ELSE last_preserved(SubSeq(seg, 1, Len(seg) - 1))
has_preserved(seg) == \E k \in 1..Len(seg) : seg[k].kind = "IsPreservedOption"

with_remaining_chain(p, start_idx) ==
    [command |-> p.command, args |-> <<>>,
     command_chain |-> IF start_idx < Len(p.command_chain)
                       THEN SubSeq(p.command_chain, start_idx + 1, Len(p.command_chain))
                       ELSE <<>>,
     is_prepared |-> TRUE]

Returns(r) ==
    /\ pc' = "done" /\ result' = r
    /\ UNCHANGED <<tree, parser, state, i, cur, run_self, run_parser, input, broke, ops, last_call>>

\* lines 803..807
run_empty ==
    /\ pc = "dispatch" /\ run_chain = <<>>
    /\ Returns(Err("InvalidUsage", NoTok))
    /\ UNCHANGED invoked

\* lines 837..849 with the child looked up on the root at every level
run_delegate_from_root ==
    /\ pc = "dispatch" /\ run_chain # <<>>
    /\ first_subcommand(run_chain) > 0
    /\ LET idx == first_subcommand(run_chain) - 1
           sub_name == run_chain[idx + 1].tok
           remaining == SubSeq(run_chain, idx + 2, Len(run_chain))
           sub_parser == [with_remaining_chain(run_parser, idx)
                             EXCEPT !.command_chain = remaining]
       IN  IF has_sub_command(tree, <<>>, sub_name)
           THEN /\ run_self' = Append(run_self, sub_name)
                /\ run_parser' = sub_parser
                /\ UNCHANGED <<tree, parser, state, i, cur, pc, result, invoked,
                               input, broke, ops, last_call>>
           ELSE /\ Returns(UnknownCommand(sub_name, child_names(tree, run_self)))
                /\ UNCHANGED invoked

\* lines 837..849: hand the rest of the chain to the child's run, whose own
\* prepare call returns at once because the sub parser is marked prepared
run_delegate ==
    /\ pc = "dispatch" /\ run_chain # <<>>
    /\ first_subcommand(run_chain) > 0
    /\ LET idx == first_subcommand(run_chain) - 1
           sub_name == run_chain[idx + 1].tok
           remaining == SubSeq(run_chain, idx + 2, Len(run_chain))
           sub_parser == [with_remaining_chain(run_parser, idx)
                             EXCEPT !.command_chain = remaining]
       IN  IF has_sub_command(tree, run_self, sub_name)
           THEN /\ run_self' = Append(run_self, sub_name)
                /\ run_parser' = sub_parser
                /\ UNCHANGED <<tree, parser, state, i, cur, pc, result, invoked,
                               input, broke, ops, last_call>>
           ELSE /\ Returns(UnknownCommand(sub_name, child_names(tree, run_self)))
                /\ UNCHANGED invoked

\* the callback chosen by lines 851..869, NoCallback for None
chosen_callback(node, seg) ==
    IF has_preserved(seg) /\ get_preserved_option(node, last_preserved(seg)) >= 0
    THEN node.preserved_options[get_preserved_option(node, last_preserved(seg)) + 1].callback
    ELSE node.callback

FliCallbackData(path, arguments, callback) ==
    [command |-> path, arguments |-> arguments, callback |-> callback]

\* lines 851..876 with the arguments of the whole chain, the ancestors'
\* segments included
run_terminal_whole_chain ==
    /\ pc = "dispatch" /\ run_chain # <<>>
    /\ first_subcommand(run_chain) = 0
    /\ LET cb == chosen_callback(tree[run_self], run_chain) IN
       IF cb = NoCallback
       THEN Returns(Ok) /\ UNCHANGED invoked
       ELSE /\ invoked' = Append(invoked,
                    FliCallbackData(run_self, collect_arguments(parser.command_chain), cb))
            /\ Returns(IF cb = HelpCallback THEN Exited ELSE Ok)

\* lines 851..876: no SubCommand marker in the segment
run_terminal ==
    /\ pc = "dispatch" /\ run_chain # <<>>
    /\ first_subcommand(run_chain) = 0
    /\ LET cb == chosen_callback(tree[run_self], run_chain) IN
       IF cb = NoCallback
       THEN Returns(Ok) /\ UNCHANGED invoked
       ELSE /\ invoked' = Append(invoked,
                    FliCallbackData(run_self, collect_arguments(run_chain), cb))
            /\ Returns(IF cb = HelpCallback THEN Exited ELSE Ok)

\* ------------------------------------------------------------ the programs
RootName == Str0("app")
vShort == S(1, "v")
oShort == S(1, "o")
pShort == S(1, "p")
hShort == S(1, "h")
FlagLong == S(2, "flag")
StartName == Str0("start")
JobName == Str0("job")

\* app [-v --verbose] [-o --output <str>] > start [-v] [-p --port <int>]
\*     > job [-F --flag <str>]; -v is marked inheritable before start is made
AppRoot(positional, callback) ==
    LET n1 == cmd_add_option(FliCommand_new(RootName), "verbose", vShort,
                             S(2, "verbose"), VTNone)
        n2 == cmd_add_option(n1, "output", oShort, S(2, "output"), RequiredSingle(StrV(NoTok)))
        n3 == [n2 EXCEPT !.option_parser = mark_inheritable(@, vShort).p]
    IN  set_callback(set_expected_positional_args(n3, positional), callback)

AppTree(positional, callback) ==
    LET t0 == [q \in {<<>>} |-> AppRoot(positional, callback)]
        t1 == subcommand(t0, <<>>, StartName)
        start == set_callback(
                    cmd_add_option(t1[<<StartName>>], "port", pShort, S(2, "port"),
                                   RequiredSingle(IntV(0))),
                    "start_main")
        t2 == at_node(t1, <<StartName>>, start)
        t3 == subcommand(t2, <<StartName>>, JobName)
        job == set_callback(
                    cmd_add_option(t3[<<StartName, JobName>>], "flag", S(1, "F"), FlagLong,
                                   RequiredSingle(StrV(NoTok))),
                    "job_main")
    IN  at_node(t3, <<StartName, JobName>>, job)

AppTrees == {AppTree(0, "app_main"), AppTree(2, NoCallback)}

Tokens == {vShort, oShort, pShort, hShort, Str0("help"), BreakTok, StartName, JobName,
           FlagLong, Str0("5"), Str0("x")}

Init ==
    /\ tree \in AppTrees
    /\ input \in SeqsUpTo(Tokens, MaxArgs)
    /\ parser \in {InputArgsParser_new(name, input) : name \in {RootName, StartName}}
    /\ state = PS("Start")
    /\ i = 0
    /\ cur = <<>>
    /\ pc = "idle"
    /\ result = Unset
    /\ run_self = <<>>
    /\ run_parser = parser
    /\ invoked = <<>>
    /\ broke = FALSE
    /\ ops = 0
    /\ last_call = NoCall

Next ==
    \/ prepare_enter
    \/ scan_break
    \/ scan_after_break
    \/ scan_value
    \/ scan_preserved
    \/ scan_option
    \/ scan_subcommand
    \/ scan_unknown
    \/ scan_argument
    \/ prepare_finish
    \/ run_empty
    \/ run_delegate
    \/ run_terminal

Spec == Init /\ [][Next]_vars

\* ------------------------------------------- a program with every arity
\* tool [-q --quiet <optional single>] [-m --many <values>] > run [-q];
\* -q is marked inheritable before run is made.  The arities of -q and -m
\* are those of the test fixtures, with and without defaults and counts,
\* and one RequiredMultiple with an Int default at each of two places, the
\* case of default.get(values.len()) in input_parser.rs 236..240.
ToolName == Str0("tool")
RunName == Str0("run")
qShort == S(1, "q")
mShort == S(1, "m")
SingleArities == {OptionalSingleSome(BoolV(FALSE)), OptionalSingleNone}
ManyArities ==
    {RequiredMultiple(<<>>, NoCount), RequiredMultiple(<<>>, 2),
     OptionalMultipleNone(NoCount), OptionalMultipleSome(<<IntV(0)>>, 2),
     RequiredSingle(StrV(NoTok)), RequiredMultiple(<<IntV(0), IntV(0)>>, NoCount)}

ArityTree(single, multiple) ==
    LET n1 == cmd_add_option(FliCommand_new(ToolName), "quiet", qShort, S(2, "quiet"), single)
        n2 == cmd_add_option(n1, "many", mShort, S(2, "many"), multiple)
        n3 == [n2 EXCEPT !.option_parser = mark_inheritable(@, qShort).p]
        root == set_callback(set_expected_positional_args(n3, 1), "tool_main")
        t1 == subcommand([q \in {<<>>} |-> root], <<>>, RunName)
    IN  at_node(t1, <<RunName>>, set_callback(t1[<<RunName>>], "run_main"))

ArityTrees == {ArityTree(single, multiple) : single \in SingleArities,
                                             multiple \in ManyArities}
ArityTokens == {qShort, mShort, hShort, BreakTok, RunName, Str0("x"), Str0("1")}

InitArity ==
    /\ tree \in ArityTrees
    /\ input \in SeqsUpTo(ArityTokens, MaxArgs)
    /\ parser = InputArgsParser_new(ToolName, input)
    /\ state = PS("Start")
    /\ i = 0
    /\ cur = <<>>
    /\ pc = "idle"
    /\ result = Unset
    /\ run_self = <<>>
    /\ run_parser = parser
    /\ invoked = <<>>
    /\ broke = FALSE
    /\ ops = 0
    /\ last_call = NoCall

SpecArity == InitArity /\ [][Next]_vars

\* ------------------------------------------------ calling prepare again
\* The program calls parser.prepare(&mut root) itself, and calls it again
\* after it has returned Ok (input_parser_test.rs 797..816).
prepare_again ==
    /\ pc = "dispatch" /\ ops < MaxOps
    /\ ops' = ops + 1
    /\ LET e == prepare_entry(parser, tree[<<>>]) IN
       CASE e.kind = "prepared" ->
              /\ result' = Ok
              /\ UNCHANGED <<tree, parser, state, i, cur, pc, run_self, run_parser,
                             invoked, input, broke, last_call>>
         [] e.kind = "scan" ->
              /\ state' = e.state /\ i' = 0 /\ cur' = <<>> /\ pc' = "scan"
              /\ UNCHANGED <<tree, parser, result, run_self, run_parser, invoked,
                             input, broke, last_call>>
         [] e.kind = "error" ->
              /\ pc' = "done" /\ result' = e.err
              /\ UNCHANGED <<tree, parser, state, i, cur, run_self, run_parser,
                             invoked, input, broke, last_call>>

NextRepeat ==
    \/ prepare_enter
    \/ scan_break
    \/ scan_after_break
    \/ scan_value
    \/ scan_preserved
    \/ scan_option
    \/ scan_subcommand
    \/ scan_unknown
    \/ scan_argument
    \/ prepare_finish
    \/ prepare_again

SpecRepeat == Init /\ [][NextRepeat]_vars

\* ------------------------------------------- driving the parse state
\* A caller of the public ParseState API: from any state, any sequence of
\* set_next_mode calls with any target.
PendingPool == {AcceptingValue(oShort, RequiredSingle(StrV(NoTok))),
                AcceptingValue(vShort, OptionalSingleNone)}
ParseStates ==
    {PS(tag) : tag \in {"Start", "InCommand", "InOption", "Breaking", "InArgument", "End"}}
        \cup PendingPool

advance ==
    /\ pc = "machine" /\ ops < MaxOps
    /\ \E next \in ParseStates :
          LET r == set_next_mode(state, next) IN
          /\ state' = r.state
          /\ result' = IF r.ok THEN Ok ELSE Err("InvalidStateTransition", NoTok)
          /\ last_call' = Call("set_next_mode", <<>>, next)
    /\ ops' = ops + 1
    /\ UNCHANGED <<tree, parser, i, cur, pc, run_self, run_parser, invoked, input, broke>>

InitState ==
    /\ state \in ParseStates
    /\ tree = tree_new(RootName)
    /\ input = <<>>
    /\ parser = InputArgsParser_new(RootName, input)
    /\ i = 0
    /\ cur = <<>>
    /\ pc = "machine"
    /\ result = Unset
    /\ run_self = <<>>
    /\ run_parser = parser
    /\ invoked = <<>>
    /\ broke = FALSE
    /\ ops = 0
    /\ last_call = NoCall

NextState == advance

SpecState == InitState /\ [][NextState]_vars

\* the values update_option_value is called with
ValuePool == {RequiredSingle(StrV(Str0("x")))}

\* ------------------------------------------- looking up preserved options
\* get_preserved_option called with any spelling on a node that has the
\* automatic help option, alone or with the debug option of
\* Fli::add_debug_option.
DebugTree ==
    at_node(tree_new(RootName), <<>>,
            add_option_with_callback(FliCommand_new(RootName), "debug", S(1, "D"),
                                     S(2, "debug"), OptionalSingleSome(BoolV(FALSE)),
                                     "debug"))
LookupTrees == {AppTree(0, "app_main"), DebugTree}
LookupBodies == {"h", "help", "D", "debug", "x", ""}
\* most leading dashes of a looked-up name
MaxDashes == 3
LookupNames == {S(d, b) : d \in 0..MaxDashes, b \in LookupBodies}
\* Option<&PreservedOption>, by the index of the option
Found(index) == [kind |-> "Some", tok |-> NoTok, pos |-> index, names |-> {}]
NotFound == [kind |-> "None", tok |-> NoTok, pos |-> 0, names |-> {}]

lookup ==
    /\ pc = "lookup" /\ ops < MaxOps
    /\ \E path \in DOMAIN tree, name \in LookupNames :
          LET index == get_preserved_option(tree[path], name) IN
          /\ result' = IF index >= 0 /\ index < Len(tree[path].preserved_options)
                       THEN Found(index) ELSE NotFound
          /\ last_call' = Call("get_preserved_option", path, name)
    /\ ops' = ops + 1
    /\ UNCHANGED <<tree, parser, state, i, cur, pc, run_self, run_parser, invoked,
                   input, broke>>

InitLookup ==
    /\ tree \in LookupTrees
    /\ input = <<>>
    /\ parser = InputArgsParser_new(RootName, input)
    /\ state = PS("Start")
    /\ i = 0
    /\ cur = <<>>
    /\ pc = "lookup"
    /\ result = Unset
    /\ run_self = <<>>
    /\ run_parser = parser
    /\ invoked = <<>>
    /\ broke = FALSE
    /\ ops = 0
    /\ last_call = NoCall

NextLookup == lookup

SpecLookup == InitLookup /\ [][NextLookup]_vars

\* ------------------------------------------------ calls on one registry
\* The program author's calls on the registry of the root: add_option,
\* mark_inheritable, mark_inheritable_many and update_option_value.  Short
\* flags are spelled -x and long flags --xxx, as everywhere in the
\* repository; some options of the pool share a flag with another one.
RegistryPool ==
    {SingleOption("all", S(1, "a"), S(2, "all"), VTNone),
     SingleOption("bare", S(1, "b"), S(2, "bare"), RequiredSingle(StrV(NoTok))),
     SingleOption("alias", S(1, "a"), S(2, "alias"), OptionalSingleNone),
     SingleOption("short", S(1, "s"), S(2, "bare"), RequiredSingle(IntV(0)))}
RegistryFlags == {S(1, "a"), S(2, "all"), S(2, "bare"), S(1, "z")}
FlagLists ==
    {<<>>,
     <<S(1, "a"), S(2, "bare")>>,
     <<S(1, "a"), S(1, "z"), S(2, "bare")>>,
     <<S(1, "z"), S(1, "a")>>,
     <<S(2, "all"), S(1, "a"), S(2, "all")>>}

OnRegistry == pc = "registry" /\ ops < MaxOps
RegistryFrame ==
    /\ ops' = ops + 1
    /\ UNCHANGED <<parser, state, i, cur, pc, run_self, run_parser, invoked, broke>>

registry_add_option ==
    /\ OnRegistry
    /\ \E o \in RegistryPool :
          /\ tree' = at_node(tree, <<>>,
                        cmd_add_option(tree[<<>>], o.name, o.short_flag, o.long_flag, o.value))
          /\ last_call' = Call("add_option", <<>>, o.short_flag)
    /\ result' = Ok
    /\ UNCHANGED input
    /\ RegistryFrame

registry_mark_inheritable ==
    /\ OnRegistry
    /\ \E flag \in RegistryFlags :
          LET r == mark_inheritable(tree[<<>>].option_parser, flag) IN
          /\ tree' = [tree EXCEPT ![<<>>].option_parser = r.p]
          /\ result' = IF r.ok THEN Ok ELSE Err("OptionNotFound", flag)
          /\ last_call' = Call("mark_inheritable", <<>>, flag)
    /\ UNCHANGED input
    /\ RegistryFrame

\* the whole call rolls back when one flag is unknown
registry_mark_inheritable_many_atomic ==
    /\ OnRegistry
    /\ \E flags \in FlagLists :
          LET r == mark_inheritable_many(tree[<<>>].option_parser, flags) IN
          /\ tree' = IF r.ok THEN [tree EXCEPT ![<<>>].option_parser = r.p] ELSE tree
          /\ result' = IF r.ok THEN Ok ELSE Err("OptionNotFound", r.flag)
          /\ input' = flags
          /\ last_call' = Call("mark_inheritable_many", <<>>, NoTok)
    /\ RegistryFrame

\* mark_inheritable_many(flags); input keeps the flags the call was given
registry_mark_inheritable_many ==
    /\ OnRegistry
    /\ \E flags \in FlagLists :
          LET r == mark_inheritable_many(tree[<<>>].option_parser, flags) IN
          /\ tree' = [tree EXCEPT ![<<>>].option_parser = r.p]
          /\ result' = IF r.ok THEN Ok ELSE Err("OptionNotFound", r.flag)
          /\ input' = flags
          /\ last_call' = Call("mark_inheritable_many", <<>>, NoTok)
    /\ RegistryFrame

registry_update_option_value ==
    /\ OnRegistry
    /\ \E flag \in RegistryFlags, value \in ValuePool :
          LET r == update_option_value(tree[<<>>].option_parser, flag, value) IN
          /\ tree' = [tree EXCEPT ![<<>>].option_parser = r.p]
          /\ result' = IF r.ok THEN Ok ELSE Err("OptionNotFound", flag)
          /\ last_call' = Call("update_option_value", <<>>, flag)
    /\ UNCHANGED input
    /\ RegistryFrame

InitRegistry ==
    /\ tree = tree_new(RootName)
    /\ input = <<>>
    /\ parser = InputArgsParser_new(RootName, <<>>)
    /\ state = PS("Start")
    /\ i = 0
    /\ cur = <<>>
    /\ pc = "registry"
    /\ result = Unset
    /\ run_self = <<>>
    /\ run_parser = parser
    /\ invoked = <<>>
    /\ broke = FALSE
    /\ ops = 0
    /\ last_call = NoCall

NextRegistry ==
    \/ registry_add_option
    \/ registry_mark_inheritable
    \/ registry_mark_inheritable_many
    \/ registry_update_option_value

SpecRegistry == InitRegistry /\ [][NextRegistry]_vars

\* ------------------------------------------------------ building the tree
\* The program author's calls on a fresh root: add_option, mark_inheritable
\* and subcommand, on any node built so far.
aShort == S(1, "a")
AllLong == S(2, "all")
BareLong == S(2, "bare")
OptionPool ==
    {SingleOption("all", aShort, AllLong, VTNone),
     SingleOption("bare", S(1, "b"), BareLong, RequiredSingle(StrV(NoTok))),
     SingleOption("again", aShort, AllLong, VTNone)}
FlagPool == {aShort, BareLong, S(1, "z")}
NamePool == {Str0("c1"), Str0("c2")}
\* depth of the deepest node that is made: children and grandchildren
MaxDepth == 2

Building == pc = "build" /\ ops < MaxOps
BuildFrame ==
    /\ ops' = ops + 1
    /\ UNCHANGED <<parser, state, i, cur, pc, run_self, run_parser, invoked, input, broke>>

build_add_option ==
    /\ Building
    /\ \E path \in DOMAIN tree, o \in OptionPool :
          /\ tree' = at_node(tree, path,
                        cmd_add_option(tree[path], o.name, o.short_flag, o.long_flag, o.value))
          /\ last_call' = Call("add_option", path, o.short_flag)
    /\ result' = Ok
    /\ BuildFrame

build_mark_inheritable ==
    /\ Building
    /\ \E path \in DOMAIN tree, flag \in FlagPool :
          LET r == mark_inheritable(tree[path].option_parser, flag) IN
          /\ tree' = [tree EXCEPT ![path].option_parser = r.p]
          /\ result' = IF r.ok THEN Ok ELSE Err("OptionNotFound", flag)
          /\ last_call' = Call("mark_inheritable", path, flag)
    /\ BuildFrame

build_subcommand ==
    /\ Building
    /\ \E path \in DOMAIN tree, name \in NamePool :
          /\ Len(path) < MaxDepth
          /\ tree' = subcommand(tree, path, name)
          /\ last_call' = Call("subcommand", path, name)
    /\ result' = Ok
    /\ BuildFrame

\* the registries of parent and children are one shared object: the update
\* shows on every node that knows the flag
build_update_option_value_shared ==
    /\ Building
    /\ \E path \in DOMAIN tree, flag \in FlagPool, value \in ValuePool :
          LET r == update_option_value(tree[path].option_parser, flag, value) IN
          /\ tree' = [q \in DOMAIN tree |->
                        [tree[q] EXCEPT !.option_parser =
                            update_option_value(@, flag, value).p]]
          /\ result' = IF r.ok THEN Ok ELSE Err("OptionNotFound", flag)
          /\ last_call' = Call("update_option_value", path, flag)
    /\ BuildFrame

\* update_option_value on the registry of one node: the call a program makes
\* through get_option_parser(), and the call prepare makes to commit a value
\* (input_parser.rs 183..186, 212..215, 262..265, 312..314)
build_update_option_value ==
    /\ Building
    /\ \E path \in DOMAIN tree, flag \in FlagPool, value \in ValuePool :
          LET r == update_option_value(tree[path].option_parser, flag, value) IN
          /\ tree' = [tree EXCEPT ![path].option_parser = r.p]
          /\ result' = IF r.ok THEN Ok ELSE Err("OptionNotFound", flag)
          /\ last_call' = Call("update_option_value", path, flag)
    /\ BuildFrame

InitBuild ==
    /\ tree = tree_new(RootName)
    /\ input = <<>>
    /\ parser = InputArgsParser_new(RootName, input)
    /\ state = PS("Start")
    /\ i = 0
    /\ cur = <<>>
    /\ pc = "build"
    /\ result = Unset
    /\ run_self = <<>>
    /\ run_parser = parser
    /\ invoked = <<>>
    /\ broke = FALSE
    /\ ops = 0
    /\ last_call = NoCall

NextBuild ==
    \/ build_add_option
    \/ build_mark_inheritable
    \/ build_subcommand
    \/ build_update_option_value

SpecBuild == InitBuild /\ [][NextBuild]_vars

\* ---------------------------------------- options with and without callback
\* The program author's add_option and add_option_with_callback calls on a
\* fresh root, which has its help option; the flags are those of
\* test_subcommand_can_override_inherited_option and of a version switch,
\* some of them the flags of the help option.
TablePool ==
    {SingleOption("host", hShort, S(2, "host"), OptionalSingleSome(StrV(Str0("x")))),
     SingleOption("aid", S(1, "a"), S(2, "help"), VTNone),
     SingleOption("version", S(1, "V"), S(2, "version"), VTNone)}
TableCallbacks == {"version_cb"}

OnTables == pc = "tables" /\ ops < MaxOps
TablesFrame ==
    /\ ops' = ops + 1
    /\ result' = Ok
    /\ UNCHANGED <<parser, state, i, cur, pc, run_self, run_parser, invoked, broke>>

tables_add_option ==
    /\ OnTables
    /\ \E o \in TablePool :
          /\ tree' = at_node(tree, <<>>,
                        cmd_add_option(tree[<<>>], o.name, o.short_flag, o.long_flag, o.value))
          /\ input' = <<o.short_flag, o.long_flag>>
          /\ last_call' = Call("add_option", <<>>, o.short_flag)
    /\ TablesFrame

tables_add_option_with_callback ==
    /\ OnTables
    /\ \E o \in TablePool, callback \in TableCallbacks :
          /\ tree' = at_node(tree, <<>>,
                        add_option_with_callback(tree[<<>>], o.name, o.short_flag,
                                                 o.long_flag, o.value, callback))
          /\ input' = <<o.short_flag, o.long_flag>>
          /\ last_call' = Call("add_option_with_callback", <<>>, o.short_flag)
    /\ TablesFrame

InitTables ==
    /\ tree = tree_new(RootName)
    /\ input = <<>>
    /\ parser = InputArgsParser_new(RootName, <<>>)
    /\ state = PS("Start")
    /\ i = 0
    /\ cur = <<>>
    /\ pc = "tables"
    /\ result = Unset
    /\ run_self = <<>>
    /\ run_parser = parser
    /\ invoked = <<>>
    /\ broke = FALSE
    /\ ops = 0
    /\ last_call = NoCall

NextTables ==
    \/ tables_add_option
    \/ tables_add_option_with_callback

SpecTables == InitTables /\ [][NextTables]_vars

\* ============================================================== properties
chain == parser.command_chain
prepared == parser.is_prepared /\ pc \in {"dispatch", "done"}
Count(seq, x) == Cardinality({k \in 1..Len(seq) : seq[k] = x})
InSeq(seq, x) == \E k \in 1..Len(seq) : seq[k] = x

\* path of the node under which entry k of a chain was produced: the names
\* of the SubCommand entries that precede it
RECURSIVE NodeAt(_, _)
NodeAt(c, k) ==
    IF k <= 1 THEN <<>>
    ELSE IF c[k - 1].kind = "SubCommand" THEN Append(NodeAt(c, k - 1), c[k - 1].tok)
    ELSE NodeAt(c, k - 1)

\* tok is the short or the long flag of an option of the registry
IsRegisteredFlag(registry, tok) ==
    \E k \in 1..Len(registry.options) :
        tok \in {registry.options[k].short_flag, registry.options[k].long_flag}

\* C1: once prepare has accepted a `--`, every later token it examines is
\* appended to the chain as Argument(token), whatever its spelling: it is
\* not taken as a flag, a preserved option, a value or a subcommand name.
\* (A second `--` is left aside here; the property is about the tokens that
\* are spelled like flags and names.)
C1_BreakIsAbsorbing ==
    [][(broke /\ Scanning /\ arg # BreakTok)
        => parser'.command_chain = Append(chain, ArgumentEntry(arg))]_vars

\* C2 as stated: while a RequiredSingle option awaits its value, a next token
\* that is not a registered flag is consumed and becomes the value of exactly
\* one Option(flag, RequiredSingle(value)) entry; a registered flag or the end
\* of the input makes prepare return MissingValue.
AwaitsRequiredSingle ==
    pc = "scan" /\ state.tag = "AcceptingValue" /\ state.vt.kind = "RequiredSingle"
ConsumedAsSingle(value) ==
    /\ parser'.command_chain = Append(chain, OptionEntry(state.opt, RequiredSingle(value)))
    /\ i' = i + 1
    /\ pc' = "scan"
ReturnsMissingValue ==
    pc' = "done" /\ result' = Err("MissingValue", state.opt) /\ parser'.command_chain = chain
RetypesTo(template, tok) ==
    CASE template.t = "Str" -> {StrV(tok)}
      [] template.t = "Int" ->
            IF tok.d \in {0, 1} /\ tok.b \in DigitStrings
            THEN {IntV(IF tok.d = 1 THEN 0 - DecimalOf(tok.b) ELSE DecimalOf(tok.b))}
            ELSE {}
      [] template.t = "Bool" ->
            IF tok.d = 0 /\ tok.b \in TrueStrings THEN {BoolV(TRUE)}
            ELSE IF tok.d = 0 /\ tok.b \in FalseStrings THEN {BoolV(FALSE)}
            ELSE {}
      [] OTHER -> {}
FlagArities(registry, tok) ==
    {registry.options[k].value.kind : k \in {m \in 1..Len(registry.options) :
        tok \in {registry.options[m].short_flag, registry.options[m].long_flag}}}
PreservedFlags(node) ==
    {node.preserved_options[k].short_flag : k \in 1..Len(node.preserved_options)}
    \cup {node.preserved_options[k].long_flag : k \in 1..Len(node.preserved_options)}
\* tok is a preserved flag as written, or becomes one when its leading
\* dashes are replaced by none, one or two dashes
MatchesPreserved(node, tok) ==
    \E f \in PreservedFlags(node) \ {NoTok} :
        tok = f \/ (f.b = tok.b /\ f.d \in {0, 1, 2})

FlagRecorded ==
    /\ parser'.command_chain = Append(chain, OptionEntry(arg, VTNone))
    /\ i' = i + 1
    /\ pc' = "scan"
\* no more None-arity entries for a flag than occurrences of its token
NoEntryWithoutToken ==
    \A k \in 1..Len(chain) :
        (chain[k].kind = "Option" /\ chain[k].vt.kind = "None")
            => Count(chain, chain[k]) <= Count(input, chain[k].tok)

\* C3 as stated: for every option registered with arity None, each
\* occurrence of its flag token outside a value position and before any `--`
\* appends exactly one Option(flag, None) and consumes no further token, and
\* without the token there is no entry.
C3_NoneArityAsStated ==
    /\ [][(AtLookup /\ ~broke /\ FlagArities(command.option_parser, arg) = {"None"})
            => FlagRecorded]_vars
    /\ []NoEntryWithoutToken

\* C3 amended: the same for every None-arity option whose flag token does
\* not match the node's preserved table (the automatic help option is
\* registered with arity None, and its tokens yield PreservedOption entries).
C3_NoneArity ==
    /\ [][(AtLookup /\ ~broke /\ FlagArities(command.option_parser, arg) = {"None"}
             /\ ~MatchesPreserved(command, arg))
            => FlagRecorded]_vars
    /\ []NoEntryWithoutToken
\* the flag given twice has been recorded twice
C3_Witness ==
    /\ prepared
    /\ Count(input, vShort) = 2
    /\ Count(chain, OptionEntry(vShort, VTNone)) = 2

\* C4: the recursion into subcommands never removes or reorders chain
\* entries; `start job --flag x` under the root yields [SubCommand(start),
\* SubCommand(job), Option(--flag, x)]; and every Option and SubCommand entry
\* was resolved against the node named by the SubCommand entries before it.
C4Input == <<StartName, JobName, FlagLong, Str0("x")>>
C4Chain == <<SubCommandEntry(StartName), SubCommandEntry(JobName),
             OptionEntry(FlagLong, RequiredSingle(StrV(Str0("x"))))>>
ResolvedAgainstOwnNode ==
    \A k \in 1..Len(chain) :
        /\ NodeAt(chain, k) \in DOMAIN tree
        /\ chain[k].kind = "Option" =>
              IsRegisteredFlag(tree[NodeAt(chain, k)].option_parser, chain[k].tok)
        /\ chain[k].kind = "SubCommand" =>
              Append(NodeAt(chain, k), chain[k].tok) \in DOMAIN tree
C4_SubcommandRecursion ==
    /\ [][IsPrefix(chain, parser'.command_chain)]_vars
    /\ []((input = C4Input /\ pc \in {"dispatch", "done"}
              /\ result.kind # "CommandMismatch")
            => (prepared /\ chain = C4Chain))
    /\ []ResolvedAgainstOwnNode
C4_Witness == input = C4Input /\ prepared /\ chain = C4Chain /\ cur = <<StartName, JobName>>

\* C5: a token that is no preserved option, no registered flag and no child
\* name yields UnknownCommand(token, child names) exactly when the node
\* expects no positional argument and the chain is empty or ends in a
\* SubCommand; otherwise the token is appended as Argument(token).
UnrecognizedToken ==
    /\ AtLookup
    /\ ~MatchesPreserved(command, arg)
    /\ ~IsRegisteredFlag(command.option_parser, arg)
    /\ Append(cur, arg) \notin DOMAIN tree
PreservedCallbacks(node) ==
    {node.preserved_options[k].callback : k \in 1..Len(node.preserved_options)}
HasPreservedEntry(seg) == \E k \in 1..Len(seg) : seg[k].kind = "IsPreservedOption"
HasSubCommandEntry(seg) == \E k \in 1..Len(seg) : seg[k].kind = "SubCommand"
RECURSIVE SubCommandPath(_)
SubCommandPath(seg) ==
    IF seg = <<>> THEN <<>>
    ELSE IF Head(seg).kind = "SubCommand" THEN <<Head(seg).tok>> \o SubCommandPath(Tail(seg))
    ELSE SubCommandPath(Tail(seg))
\* the terminal rule for node `path` and its chain segment `seg`
TerminalRule(path, seg) ==
    /\ Len(invoked) <= 1
    /\ HasPreservedEntry(seg) =>
          /\ Len(invoked) = 1
          /\ invoked[1].command = path
          /\ invoked[1].callback \in PreservedCallbacks(tree[path])
    /\ (~HasPreservedEntry(seg) /\ tree[path].callback # NoCallback) =>
          /\ Len(invoked) = 1
          /\ invoked[1].command = path
          /\ invoked[1].callback = tree[path].callback
    /\ (~HasPreservedEntry(seg) /\ tree[path].callback = NoCallback) =>
          /\ invoked = <<>>
          /\ result = Ok
finished == pc = "done" /\ parser.is_prepared

\* C6: at a terminal node (a segment without SubCommand marker) run invokes
\* at most one callback: the preserved option's if the segment has a
\* PreservedOption entry, otherwise the node's main callback if set; with
\* neither, run returns Ok and invokes nothing.
C6_TerminalDispatch ==
    (finished /\ ~HasSubCommandEntry(run_chain)) => TerminalRule(run_self, run_chain)

\* C7: for every successfully parsed chain with SubCommand markers s1..sk,
\* run ends at the node reached through s1..sk, invokes that node's callback
\* by the terminal rule on the segment after sk (the empty one included),
\* returns normally, and invokes no ancestor's callback.
C7_DelegationReachesTerminal ==
    (finished /\ HasSubCommandEntry(chain)) =>
        /\ run_self = SubCommandPath(chain)
        /\ ~HasSubCommandEntry(run_chain)
        /\ TerminalRule(run_self, run_chain)
        /\ result \in {Ok, Exited}

\* C8: whenever a token was matched as a preserved option, at whatever level
\* of the chain, that option's callback is invoked on the node it was matched
\* under, and no main callback runs.  Stated for the runs that return
\* normally: a run that ends in an error invokes nothing at all.
C8_PreservedAlwaysTriggers ==
    (finished /\ result \in {Ok, Exited}) =>
        \A k \in 1..Len(chain) : chain[k].kind = "IsPreservedOption" =>
            /\ \E j \in 1..Len(invoked) :
                  /\ invoked[j].command = NodeAt(chain, k)
                  /\ invoked[j].callback \in PreservedCallbacks(tree[NodeAt(chain, k)])
            /\ \A j \in 1..Len(invoked) :
                  invoked[j].callback \in PreservedCallbacks(tree[invoked[j].command])

\* C9: outside a value position and outside the region after `--`, a token
\* that matches the node's preserved table, as written or after
\* dash-normalisation, is appended as PreservedOption(token), and no Option
\* entry ever carries such a token, although its flags are in the regular
\* registry too.
C9_PreservedFirst ==
    /\ [][(AtLookup /\ MatchesPreserved(command, arg))
            => parser'.command_chain = Append(chain, IsPreservedOptionEntry(arg))]_vars
    /\ [](\A k \in 1..Len(chain) : chain[k].kind = "Option" =>
              ~MatchesPreserved(tree[NodeAt(chain, k)], chain[k].tok))
\* -h and the bare word help were both taken as preserved options although
\* -h is a flag of the regular registry
C9_Witness ==
    /\ prepared
    /\ chain = <<IsPreservedOptionEntry(hShort), IsPreservedOptionEntry(Str0("help"))>>
    /\ IsRegisteredFlag(tree[<<>>].option_parser, hShort)

\* ---- inheritance
Marked(registry, k) == SeqContains(registry.inheritable_flags, k - 1)
HasBothFlags(registry, option) ==
    has_option(registry, option.short_flag) /\ has_option(registry, option.long_flag)
created == Append(last_call'.path, last_call'.tok)
\* a builder call on one node leaves every other node as it was; subcommand
\* touches only the child it creates (and what it replaces)
OtherNodesUntouched ==
    /\ last_call'.op \in {"add_option", "mark_inheritable"} =>
          /\ DOMAIN tree' = DOMAIN tree
          /\ \A q \in DOMAIN tree : q # last_call'.path => tree'[q] = tree[q]
    /\ last_call'.op = "subcommand" =>
          \A q \in DOMAIN tree : ~IsPrefix(created, q) => (q \in DOMAIN tree' /\ tree'[q] = tree[q])
\* f is a flag of the automatic help option or of an option marked inheritable
CarriedFlag(registry, f) ==
    \/ f \in {S(1, "h"), S(2, "help")}
    \/ \E m \in 1..Len(registry.options) :
          Marked(registry, m)
          /\ f \in {registry.options[m].short_flag, registry.options[m].long_flag}

\* C10 as stated: a child made by subcommand() has option X (has_option for
\* its short and its long flag) if and only if X was marked inheritable on
\* the parent before the child was made; later marks do not reach existing
\* children, and an option added to one node appears on no other node.
\* X ranges over the options registered through add_option.
C10_InheritanceAsStated ==
    /\ [][last_call'.op = "subcommand" =>
            LET registry == tree[last_call'.path].option_parser IN
            \A k \in 1..Len(registry.options) :
                registry.options[k].name # "help" =>
                    (HasBothFlags(tree'[created].option_parser, registry.options[k])
                        <=> Marked(registry, k))]_vars
    /\ [][OtherNodesUntouched]_vars

\* C10 amended: the child has X if X was marked before the child was made;
\* if X was not marked, the child still answers has_option for both flags of
\* X exactly when each of the two is also a flag of the automatic help option
\* or of another option that was marked before the child was made (flags may
\* collide).  The rest is as stated.
C10_Inheritance ==
    /\ [][last_call'.op = "subcommand" =>
            LET registry == tree[last_call'.path].option_parser IN
            \A k \in 1..Len(registry.options) :
                /\ Marked(registry, k) =>
                      HasBothFlags(tree'[created].option_parser, registry.options[k])
                /\ HasBothFlags(tree'[created].option_parser, registry.options[k])
                      <=> (/\ CarriedFlag(registry, registry.options[k].short_flag)
                           /\ CarriedFlag(registry, registry.options[k].long_flag))]_vars
    /\ [][OtherNodesUntouched]_vars
\* c1 was made before -a was marked and lacks it, c2 was made after and has it
C10_Witness ==
    /\ {<<Str0("c1")>>, <<Str0("c2")>>} \subseteq DOMAIN tree
    /\ Marked(tree[<<>>].option_parser, 2)
    /\ tree[<<>>].option_parser.options[2].short_flag = aShort
    /\ ~has_option(tree[<<Str0("c1")>>].option_parser, aShort)
    /\ has_option(tree[<<Str0("c2")>>].option_parser, aShort)
    /\ has_option(tree[<<Str0("c2")>>].option_parser, AllLong)

\* C11: the registry of a child is a copy, not a view: a builder call or a
\* committed value on one node (add_option, update_option_value,
\* mark_inheritable) leaves the option list, the flag maps and the option
\* values of every other node as they were, parent, children and siblings
\* alike; and making a child changes nothing in the registry of the parent
\* or of the children made before.
C11_IndependentCopies ==
    [][/\ \A q \in DOMAIN tree :
            (q # last_call'.path /\ ~(last_call'.op = "subcommand" /\ IsPrefix(created, q)))
                => /\ q \in DOMAIN tree'
                   /\ tree'[q].option_parser = tree[q].option_parser
       /\ last_call'.op = "subcommand" =>
            tree'[last_call'.path].option_parser = tree[last_call'.path].option_parser]_vars
\* --bare was inherited by c1 and then given a value in c1 only
C11_Witness ==
    /\ <<Str0("c1")>> \in DOMAIN tree
    /\ last_call = Call("update_option_value", <<Str0("c1")>>, BareLong)
    /\ get_option_expected_value_type(tree[<<Str0("c1")>>].option_parser, BareLong)
          = RequiredSingle(StrV(Str0("x")))
    /\ get_option_expected_value_type(tree[<<>>].option_parser, BareLong)
          = RequiredSingle(StrV(NoTok))

\* C12: once prepare has returned Ok, with or without a recursion into
\* subcommands, every further prepare call returns Ok and leaves the parser
\* (chain, args, command, prepared flag) and the whole command tree as they
\* were.
C12_PrepareIdempotent ==
    [][(pc = "dispatch" /\ ops' = ops + 1)
        => /\ result' = Ok
           /\ parser' = parser
           /\ tree' = tree
           /\ pc' = "dispatch"]_vars
\* prepare recursed into start, committed a value, and was called twice more
C12_Witness ==
    /\ pc = "dispatch" /\ ops >= 2 /\ result = Ok
    /\ chain = <<SubCommandEntry(StartName),
                 OptionEntry(pShort, RequiredSingle(IntV(5)))>>
    /\ parser.args = <<pShort, Str0("5")>>

\* C13: when prepare meets the token `--`, it accepts it only in the states
\* InOption and AcceptingValue: the state becomes Breaking, the cursor moves
\* on and the chain gets no entry for it; in every other state (InCommand,
\* InArgument, Breaking) prepare returns UnexpectedToken with the token `--`
\* and the cursor position.
C13_BreakLegality ==
    [][(Scanning /\ arg = BreakTok) =>
        IF state.tag \in {"InOption", "AcceptingValue"}
        THEN /\ state' = PS("Breaking")
             /\ parser'.command_chain = chain
             /\ i' = i + 1 /\ pc' = "scan"
        ELSE /\ state.tag \in {"InCommand", "InArgument", "Breaking"}
             /\ pc' = "done"
             /\ result' = UnexpectedToken(BreakTok, i)
             /\ parser'.command_chain = chain]_vars
\* a first `--` was accepted after -v, a second one met in InArgument was
\* refused at position 3
C13_Witness ==
    /\ pc = "done" /\ broke
    /\ input = <<vShort, BreakTok, Str0("x"), BreakTok>>
    /\ result = UnexpectedToken(BreakTok, 3)
    /\ chain = <<OptionEntry(vShort, VTNone), ArgumentEntry(Str0("x"))>>

\* ---- optional and multiple arities
\* the value the registry of the current node holds for the pending option
RegistryValue(t, path, flag) ==
    LET registry == t[path].option_parser
        k == CHOOSE m \in 1..Len(registry.options) :
                /\ flag \in {registry.options[m].short_flag, registry.options[m].long_flag}
                /\ \A n \in (m + 1)..Len(registry.options) :
                      flag \notin {registry.options[n].short_flag, registry.options[n].long_flag}
    IN  registry.options[k].value
AwaitsOptionalSingle ==
    /\ Scanning /\ state.tag = "AcceptingValue" /\ state.vt.kind = "OptionalSingle"
\* the entry is appended without a value and the same token is looked up next
RecordedAbsent ==
    /\ parser'.command_chain = Append(chain, OptionEntry(state.opt, OptionalSingleNone))
    /\ i' = i /\ pc' = "scan" /\ state' = PS("InOption")
    /\ parser'.args = parser.args
ConsumedAsOptional(value) ==
    /\ parser'.command_chain = Append(chain, OptionEntry(state.opt, OptionalSingleSome(value)))
    /\ i' = i + 1 /\ pc' = "scan"
    /\ RegistryValue(tree', cur, state.opt) = OptionalSingleSome(value)
OptionalTemplate == IF state.vt.vals # <<>> THEN state.vt.vals[1] ELSE StrV(NoTok)

\* C14: while an OptionalSingle option awaits its value, a next token that
\* is a registered flag gives one Option(flag, OptionalSingle(absent)) entry
\* and is itself looked up next; any other next token is consumed as the
\* value, re-typed, recorded in one Option entry and committed to the
\* registry.  Stated for the tokens that re-type to the kind of the default.
C14_OptionalSingle ==
    [][(AwaitsOptionalSingle /\ (IsRegisteredFlag(command.option_parser, arg)
                                  \/ RetypesTo(OptionalTemplate, arg) # {})) =>
        IF IsRegisteredFlag(command.option_parser, arg)
        THEN RecordedAbsent
        ELSE \A v \in RetypesTo(OptionalTemplate, arg) : ConsumedAsOptional(v)]_vars

AwaitsMultiple ==
    /\ Scanning /\ state.tag = "AcceptingValue"
    /\ state.vt.kind \in {"RequiredMultiple", "OptionalMultiple"}
\* how many tokens from cursor j on belong to the values of the pending
\* option, n being collected already: the run ends at a registered flag, at
\* `--`, at the end of the input, or when the declared count is reached
RECURSIVE RunLength(_, _, _, _, _)
RunLength(args, j, registry, n, count) ==
    IF j >= Len(args) \/ (count # NoCount /\ n >= count) THEN n
    ELSE IF IsRegisteredFlag(registry, args[j + 1]) \/ args[j + 1] = BreakTok THEN n
    ELSE RunLength(args, j + 1, registry, n + 1, count)
\* the default that types the k-th value
MultipleTemplate(k) ==
    IF state.vt.some /\ k <= Len(state.vt.vals) THEN state.vt.vals[k] ELSE StrV(NoTok)
CollectedRun == RunLength(parser.args, i, command.option_parser, 0, state.vt.count)
RunRetypes == \A k \in 1..CollectedRun : RetypesTo(MultipleTemplate(k), parser.args[i + k]) # {}
RunValues ==
    [k \in 1..CollectedRun |->
        CHOOSE v \in RetypesTo(MultipleTemplate(k), parser.args[i + k]) : TRUE]

\* C15: while a RequiredMultiple or OptionalMultiple option awaits its
\* values, prepare collects the maximal run of tokens that ends at the first
\* registered flag, at `--`, at the end of the input or at the declared
\* count; the values appear in token order in exactly one Option entry; for
\* RequiredMultiple an empty run, or a run shorter than a declared count, is
\* an error; the token that ended the run is not consumed.  Stated for the
\* runs whose tokens re-type to the kinds of the defaults.
C15_MultipleCollection ==
    [][(AwaitsMultiple /\ RunRetypes) =>
        IF /\ state.vt.kind = "RequiredMultiple"
           /\ (CollectedRun = 0 \/ (state.vt.count # NoCount /\ CollectedRun # state.vt.count))
        THEN /\ pc' = "done" /\ result'.kind = "MissingValue"
             /\ parser'.command_chain = chain
        ELSE /\ parser'.command_chain = Append(chain, OptionEntry(state.opt,
                    IF CollectedRun = 0 THEN OptionalMultipleNone(state.vt.count)
                    ELSE [state.vt EXCEPT !.vals = RunValues, !.some = TRUE]))
             /\ i' = i + CollectedRun
             /\ pc' = "scan"]_vars

\* C16: when the input ends while an option still awaits its value, an
\* Optional arity makes prepare succeed with exactly one more entry,
\* Option(flag, absent); a Required arity makes prepare return MissingValue
\* for that flag, and the parser is not marked prepared.
EndsAwaitingValue == pc = "scan" /\ i >= Len(parser.args) /\ state.tag = "AcceptingValue"
ArgumentBehindOption ==
    \E k \in 1..(Len(chain) - 1) :
        chain[k].kind = "Option" /\ chain[k + 1].kind = "Argument"
C17_PositionalAfterOption ==
    /\ [][(UnrecognizedToken /\ state.tag = "InOption") =>
            /\ pc' = "done"
            /\ result' = Err("InvalidStateTransition", arg)
            /\ ~parser'.is_prepared]_vars
    /\ []((prepared /\ ~broke) => ~ArgumentBehindOption)
C17_Witness ==
    /\ input = <<vShort, Str0("x")>>
    /\ pc = "done"
    /\ result = Err("InvalidStateTransition", Str0("x"))
    /\ ~parser.is_prepared

\* C18: on a node that expects positional arguments, the tokens that are no
\* flag, no preserved option and no child name are appended as Argument
\* entries in the order met, and a registered flag met in state InArgument
\* is taken as an option: `x 5 -v` gives
\* [Argument(x), Argument(5), Option(-v, None)].
C18Input == <<Str0("x"), Str0("5"), vShort>>
C18Chain == <<ArgumentEntry(Str0("x")), ArgumentEntry(Str0("5")), OptionEntry(vShort, VTNone)>>
C18_ArgumentsThenOption ==
    /\ [][(/\ UnrecognizedToken
            /\ command.expected_positional_args > 0
            /\ state.tag \in {"Start", "InCommand", "InArgument"}) =>
            /\ parser'.command_chain = Append(chain, ArgumentEntry(arg))
            /\ state'.tag = "InArgument"
            /\ i' = i + 1
            /\ pc' = "scan"]_vars
    /\ [][(/\ Scanning /\ arg # BreakTok /\ state.tag = "InArgument"
            /\ ~MatchesPreserved(command, arg)
            /\ IsRegisteredFlag(command.option_parser, arg)) =>
            /\ pc' = "scan"
            /\ i' = i + 1
            /\ IF RegistryValue(tree, cur, arg) = VTNone
               THEN /\ state'.tag = "InOption"
                    /\ parser'.command_chain = Append(chain, OptionEntry(arg, VTNone))
               ELSE /\ state'.tag = "AcceptingValue" /\ state'.opt = arg
                    /\ parser'.command_chain = chain]_vars
    /\ []((/\ input = C18Input /\ parser.command = RootName
            /\ tree[<<>>].expected_positional_args > 0
            /\ pc \in {"dispatch", "done"}) =>
            (prepared /\ chain = C18Chain))
C18_Witness ==
    /\ input = C18Input
    /\ tree[<<>>].expected_positional_args > 0
    /\ prepared
    /\ chain = C18Chain

\* C19: an optional-single flag of the parent directly followed by the name
\* of a child gives the chain [Option(flag, ...), SubCommand(name)]: the
\* name is resolved as a subcommand, not consumed as the flag's value.
C19Input == <<qShort, RunName>>
C19_OptionBeforeSubcommand ==
    (/\ input = C19Input
     /\ RegistryValue(tree, <<>>, qShort).kind = "OptionalSingle"
     /\ pc \in {"dispatch", "done"}) =>
        /\ prepared
        /\ Len(chain) = 2
        /\ chain[1].kind = "Option" /\ chain[1].tok = qShort
        /\ chain[2] = SubCommandEntry(RunName)

\* C20: for a flag declared OptionalSingle(Some(Bool(false))), after a
\* successful prepare: passed without a value, its chain entry and its
\* registry value are both OptionalSingle(Some(Bool(true))); not passed,
\* the chain has no entry for it and the registry value is still
\* OptionalSingle(Some(Bool(false))).
DeclaredSwitch == OptionalSingleSome(BoolV(FALSE))
SwitchOn == OptionalSingleSome(BoolV(TRUE))
PassedWithoutValue ==
    /\ input # <<>> /\ input[1] = qShort
    /\ \A k \in 2..Len(input) : input[k] # qShort
    /\ (Len(input) = 1 \/ input[2] \in {mShort, hShort})
NotPassed == \A k \in 1..Len(input) : input[k] # qShort
\* the flag was declared with a Bool default on the root (no step gives it a
\* Bool value otherwise)
SwitchDeclared == RegistryValue(tree, <<>>, qShort) \in {DeclaredSwitch, SwitchOn}
C20_SwitchRecoverable ==
    (SwitchDeclared /\ prepared /\ cur = <<>>) =>
        /\ PassedWithoutValue =>
              /\ chain[1] = OptionEntry(qShort, SwitchOn)
              /\ RegistryValue(tree, <<>>, qShort) = SwitchOn
        /\ NotPassed =>
              /\ \A k \in 1..Len(chain) : ~(chain[k].kind = "Option" /\ chain[k].tok = qShort)
              /\ RegistryValue(tree, <<>>, qShort) = DeclaredSwitch

\* C21: when the name the parser was declared with differs from the name
\* of the node handed to prepare, and the parser is not prepared, prepare
\* returns CommandMismatch(expected = node name, actual = declared name)
\* before it looks at a token: the chain stays empty, the parser stays
\* unprepared and the tree is unchanged.
NameMismatch == pc = "idle" /\ ~parser.is_prepared /\ parser.command # tree[<<>>].name
C21_CommandMismatch ==
    [][NameMismatch =>
        /\ pc' = "done"
        /\ result'.kind = "CommandMismatch"
        /\ result'.names = {tree[<<>>].name}
        /\ result'.tok = parser.command
        /\ parser' = parser /\ parser'.command_chain = <<>> /\ ~parser'.is_prepared
        /\ tree' = tree
        /\ i' = 0 /\ state' = state]_vars
C21_Witness ==
    /\ pc = "done"
    /\ result = [kind |-> "CommandMismatch", tok |-> StartName, pos |-> 0, names |-> {RootName}]
    /\ input = <<StartName, pShort, Str0("5")>>
    /\ chain = <<>> /\ ~parser.is_prepared

\* C22: a set_next_mode call is accepted (the state becomes the target) or
\* refused (the state is kept) by these rules: no state moves to Start;
\* InCommand is entered only from Start or InCommand; AcceptingValue only
\* from InOption; Breaking only from InOption or AcceptingValue; InArgument
\* is never entered from InOption or AcceptingValue; End is entered from
\* every state except Start.
Advancing == pc = "machine" /\ last_call'.op = "set_next_mode" /\ ops' = ops + 1
Target == last_call'.tok.tag
Accepted == result' = Ok /\ state' = last_call'.tok
Refused == result'.kind = "InvalidStateTransition" /\ state' = state
C22_RestrictedTransitions ==
    [][Advancing =>
        /\ Accepted \/ Refused
        /\ Target = "Start" => Refused
        /\ Target = "InCommand" => (Accepted <=> state.tag \in {"Start", "InCommand"})
        /\ Target = "AcceptingValue" => (Accepted <=> state.tag = "InOption")
        /\ Target = "Breaking" => (Accepted <=> state.tag \in {"InOption", "AcceptingValue"})
        /\ (Target = "InArgument" /\ state.tag \in {"InOption", "AcceptingValue"}) => Refused
        /\ Target = "End" => (Accepted <=> state.tag # "Start")]_vars
\* InOption was asked to become InArgument and stayed InOption
C22_Witness ==
    /\ pc = "machine"
    /\ last_call = Call("set_next_mode", <<>>, PS("InArgument"))
    /\ result = Err("InvalidStateTransition", NoTok)
    /\ state = PS("InOption")

\* C23: from Start the only accepted target is InCommand; InOption,
\* InArgument, AcceptingValue, Breaking and End are refused.
C23_StartOnlyToCommand ==
    [][(Advancing /\ state.tag = "Start") =>
        /\ Target = "InCommand" => Accepted
        /\ Target # "InCommand" => Refused]_vars

\* ---- the registry
Registry == tree[<<>>].option_parser
\* 0-based index of the most recently registered option that has the flag,
\* -1 if no option has it
LastWith(registry, f) ==
    IF IsRegisteredFlag(registry, f)
    THEN (CHOOSE k \in 1..Len(registry.options) :
            /\ f \in {registry.options[k].short_flag, registry.options[k].long_flag}
            /\ \A m \in (k + 1)..Len(registry.options) :
                  f \notin {registry.options[m].short_flag, registry.options[m].long_flag}) - 1
    ELSE 0 - 1
IsMarked(registry, index) ==
    \E k \in 1..Len(registry.inheritable_flags) : registry.inheritable_flags[k] = index
\* position in flags of the first flag no option has, 0 if there is none
FirstUnknown(registry, flags) ==
    IF \E k \in 1..Len(flags) : ~IsRegisteredFlag(registry, flags[k])
    THEN CHOOSE k \in 1..Len(flags) :
            /\ ~IsRegisteredFlag(registry, flags[k])
            /\ \A m \in 1..(k - 1) : IsRegisteredFlag(registry, flags[m])
    ELSE 0

\* C24: mark_inheritable_many takes its flags in order and stops at the
\* first one no option has, returning OptionNotFound for it: the flags
\* before it are marked and stay marked, no flag after it is marked by the
\* call; with every flag registered it returns Ok and all are marked.
C24_MarkManyStopsAtFirstUnknown ==
    [][(pc = "registry" /\ last_call'.op = "mark_inheritable_many" /\ ops' = ops + 1) =>
        LET flags == input'
            j == FirstUnknown(Registry, flags)
            done == IF j = 0 THEN Len(flags) ELSE j - 1
            after == tree'[<<>>].option_parser
        IN  /\ result' = IF j = 0 THEN Ok ELSE Err("OptionNotFound", flags[j])
            /\ after.options = Registry.options
            /\ \A index \in 0..(Len(Registry.options) - 1) :
                  IsMarked(after, index) <=>
                      \/ IsMarked(Registry, index)
                      \/ \E k \in 1..done : LastWith(Registry, flags[k]) = index]_vars
\* -a was marked, -z stopped the call, --bare (registered) was not marked
C24_Witness ==
    /\ pc = "registry"
    /\ last_call.op = "mark_inheritable_many"
    /\ input = <<S(1, "a"), S(1, "z"), S(2, "bare")>>
    /\ result = Err("OptionNotFound", S(1, "z"))
    /\ IsMarked(Registry, LastWith(Registry, S(1, "a")))
    /\ IsRegisteredFlag(Registry, S(2, "bare"))
    /\ ~IsMarked(Registry, LastWith(Registry, S(2, "bare")))

\* C25: after any sequence of add_option, mark_inheritable and
\* mark_inheritable_many calls an option index is in the inheritable list
\* at most once: marking an index that is already in the list, through the
\* short or the long flag, changes nothing; mark_inheritable on a flag no
\* option has returns OptionNotFound and leaves the list as it was.
NoIndexTwice ==
    \A k, m \in 1..Len(Registry.inheritable_flags) :
        Registry.inheritable_flags[k] = Registry.inheritable_flags[m] => k = m
C25_InheritableListIsASet ==
    /\ [](pc = "registry" => NoIndexTwice)
    /\ [][(pc = "registry" /\ last_call'.op = "mark_inheritable" /\ ops' = ops + 1) =>
            LET flag == last_call'.tok IN
            /\ ~IsRegisteredFlag(Registry, flag) =>
                  /\ result' = Err("OptionNotFound", flag)
                  /\ tree' = tree
            /\ IsRegisteredFlag(Registry, flag) =>
                  /\ result' = Ok
                  /\ tree'[<<>>].option_parser.inheritable_flags =
                        IF IsMarked(Registry, LastWith(Registry, flag))
                        THEN Registry.inheritable_flags
                        ELSE Append(Registry.inheritable_flags, LastWith(Registry, flag))]_vars
\* `all` was marked through -a and then again through --all
C25_Witness ==
    /\ pc = "registry"
    /\ last_call = Call("mark_inheritable", <<>>, S(2, "all"))
    /\ result = Ok
    /\ Len(Registry.options) = 2
    /\ Registry.options[2].name = "all"
    /\ Registry.inheritable_flags = <<1>>
    /\ ops = 3

\* C26: registering an option with a flag another option already has never
\* fails and moves the flag to the new option: has_option,
\* get_option_expected_value_type, update_option_value and mark_inheritable
\* on that flag all act on the most recently registered option that has it.
AllFlags == RegistryFlags \cup {o.short_flag : o \in RegistryPool}
                          \cup {o.long_flag : o \in RegistryPool}
Respellings(name) == {name, S(0, name.b), S(1, name.b), S(2, name.b)}
Answers(node, name) ==
    {k \in 1..Len(node.preserved_options) :
        {node.preserved_options[k].short_flag, node.preserved_options[k].long_flag}
            \cap Respellings(name) # {}}
C27_PreservedSpellings ==
    /\ [][(pc = "lookup" /\ ops' = ops + 1) =>
            LET node == tree[last_call'.path]
                name == last_call'.tok
            IN  /\ Answers(node, name) = {} => result' = NotFound
                /\ Answers(node, name) # {} =>
                      /\ result'.kind = "Some"
                      /\ result'.pos + 1 \in Answers(node, name)]_vars
    /\ [](pc = "lookup" =>
            \A path \in DOMAIN tree :
                /\ get_preserved_option(tree[path], Str0("help")) = get_preserved_option(tree[path], S(1, "h"))
                /\ get_preserved_option(tree[path], S(2, "help")) = get_preserved_option(tree[path], S(1, "h"))
                /\ get_preserved_option(tree[path], S(1, "h")) >= 0
                /\ tree[path].preserved_options[get_preserved_option(tree[path], S(1, "h")) + 1].callback
                      = HelpCallback)
\* the bare name found the debug option, registered behind the help option
C27_Witness ==
    /\ pc = "lookup"
    /\ tree = DebugTree
    /\ last_call = Call("get_preserved_option", <<>>, Str0("debug"))
    /\ result = Found(1)

\* C28: every node, made by new, with_parser or subcommand, has its own
\* help option: -h and --help are flags of its registry and of its
\* preserved-option table, whatever it inherited and whether or not its
\* parent marked anything inheritable.
HasOwnHelp(node) ==
    /\ IsRegisteredFlag(node.option_parser, S(1, "h"))
    /\ IsRegisteredFlag(node.option_parser, S(2, "help"))
    /\ has_option(node.option_parser, S(1, "h"))
    /\ has_option(node.option_parser, S(2, "help"))
    /\ \E k \in 1..Len(node.preserved_options) :
          /\ node.preserved_options[k].short_flag = S(1, "h")
          /\ node.preserved_options[k].long_flag = S(2, "help")
          /\ node.preserved_options[k].callback = HelpCallback
          /\ S(1, "h") \in DOMAIN node.preserved_short_flags
          /\ node.preserved_short_flags[S(1, "h")] = k - 1
          /\ S(2, "help") \in DOMAIN node.preserved_long_flags
          /\ node.preserved_long_flags[S(2, "help")] = k - 1
C28_EveryNodeHasHelp ==
    pc = "build" => \A path \in DOMAIN tree : HasOwnHelp(tree[path])
\* one child was made while nothing was marked and has help only; the other
\* was made after -a was marked and has help behind the inherited option
C28_Witness ==
    /\ pc = "build"
    /\ {<<Str0("c1")>>, <<Str0("c2")>>} \subseteq DOMAIN tree
    /\ \E p, q \in {<<Str0("c1")>>, <<Str0("c2")>>} :
          /\ Len(tree[p].option_parser.options) = 1
          /\ tree[p].option_parser.options[1].name = "help"
          /\ Len(tree[q].option_parser.options) = 2
          /\ tree[q].option_parser.options[1].short_flag = aShort
          /\ tree[q].option_parser.options[2].name = "help"

\* ---- chain and registry
\* the entry's ValueTypes holds a value: a Required arity, or an Optional
\* arity that is Some
Carries(vt) ==
    \/ vt.kind \in {"RequiredSingle", "RequiredMultiple"}
    \/ (vt.kind \in {"OptionalSingle", "OptionalMultiple"} /\ vt.some)
\* entries k and m of the chain are of one option of one node
SameOption(c, k, m) ==
    /\ c[k].kind = "Option" /\ c[m].kind = "Option"
    /\ NodeAt(c, k) = NodeAt(c, m)
    /\ LastWith(tree[NodeAt(c, k)].option_parser, c[k].tok)
          = LastWith(tree[NodeAt(c, m)].option_parser, c[m].tok)
\* the entries a step of prepare appended
Appended == SubSeq(parser'.command_chain, Len(chain) + 1, Len(parser'.command_chain))
\* the registry is changed only by a step that appends an Option entry for
\* the pending option, and only in the value of that option on the node
\* being parsed, which becomes the value of the entry
CommitsOnlyWithEntry ==
    [][(pc = "scan" /\ tree' # tree) =>
        /\ state.tag = "AcceptingValue"
        /\ Len(Appended) = 1
        /\ Appended[1].kind = "Option" /\ Appended[1].tok = state.opt
        /\ tree' = [tree EXCEPT
                      ![cur].option_parser.options[LastWith(command.option_parser, state.opt) + 1].value
                          = Appended[1].vt]]_vars

AwaitsSingle ==
    /\ Scanning /\ state.tag = "AcceptingValue"
    /\ state.vt.kind \in {"RequiredSingle", "OptionalSingle"}
SingleFailsRetyping ==
    /\ AwaitsSingle /\ arg # BreakTok
    /\ ~IsRegisteredFlag(command.option_parser, arg)
    /\ RetypesTo(OptionalTemplate, arg) = {}
\* the places of the run of a multi-value option whose token does not
\* re-type to the kind of the default at that place
BadPositions ==
    {k \in 1..CollectedRun : RetypesTo(MultipleTemplate(k), parser.args[i + k]) = {}}
RunFailsRetyping == AwaitsMultiple /\ arg # BreakTok /\ BadPositions # {}
FirstBad ==
    parser.args[i + (CHOOSE k \in BadPositions : \A j \in BadPositions : k <= j)]
RejectedWith(tok) ==
    /\ pc' = "done"
    /\ result' = Err("ValueParseError", tok)
    /\ parser'.command_chain = chain
    /\ RegistryValue(tree', cur, state.opt) = RegistryValue(tree, cur, state.opt)

\* C30: when a value token cannot be re-typed to the kind of the option's
\* default, alone or inside a multi-value run, prepare returns the parse
\* error that carries this token, appends no entry for this occurrence of
\* the option and leaves the option's value in the registry as it was.
C30_RetypeFailure ==
    [][/\ SingleFailsRetyping => RejectedWith(arg)
       /\ RunFailsRetyping => RejectedWith(FirstBad)]_vars
\* `-m 1 x` with two Int defaults: the second value of the run is rejected
C30_Witness ==
    /\ pc = "done"
    /\ input = <<mShort, Str0("1"), Str0("x")>>
    /\ result = Err("ValueParseError", Str0("x"))
    /\ chain = <<>>
    /\ RegistryValue(tree, <<>>, mShort) = RequiredMultiple(<<IntV(0), IntV(0)>>, NoCount)

\* ---- defensive paths, transitions, traces of a failure
ValueArities == {"RequiredSingle", "OptionalSingle", "RequiredMultiple", "OptionalMultiple"}

TransitionRefused == pc = "scan" /\ result'.kind = "InvalidStateTransition"
\* the token is none of a flag, a preserved option or a child name, and is
\* met right after an option
PositionalAfterOption ==
    /\ i < Len(parser.args) /\ arg # BreakTok
    /\ state.tag = "InOption"
    /\ ~IsRegisteredFlag(command.option_parser, arg)
    /\ ~MatchesPreserved(command, arg)
    /\ Append(cur, arg) \notin DOMAIN tree

\* C32: inside the loop and at its end the parse state is never Start, so
\* the step to End is never refused; the only transition prepare attempts
\* that is refused is the one into InArgument for a positional token met
\* right after an option.
C32_OnlyArgumentAfterOptionRefused ==
    /\ [](pc = "scan" => state.tag \notin {"Start", "End"})
    /\ [][TransitionRefused => PositionalAfterOption]_vars
    /\ [][(/\ pc = "scan" /\ i >= Len(parser.args)
            /\ (state.tag = "AcceptingValue" =>
                    state.vt.kind \in {"OptionalSingle", "OptionalMultiple"})) =>
            (pc' = "dispatch" /\ state'.tag = "End" /\ parser'.is_prepared)]_vars
\* -v x on the root that expects positional arguments: the transition to
\* InArgument is refused
C32_Witness ==
    /\ pc = "done"
    /\ input = <<vShort, Str0("x")>>
    /\ result = Err("InvalidStateTransition", Str0("x"))
    /\ state.tag = "InOption"

\* the token is looked up and is a flag of a regular option of the node
RegularFlagMet ==
    /\ AtLookup
    /\ ~MatchesPreserved(command, arg)
    /\ IsRegisteredFlag(command.option_parser, arg)
\* the step appends an Option entry for the flag
RecordsOption(flag) ==
    \E k \in 1..Len(Appended) : Appended[k].kind = "Option" /\ Appended[k].tok = flag
ReturnsError == pc' = "done" /\ result'.kind \notin {"Ok", "-", "Exit0"}

\* C33: every token recognized as a flag of a regular option gets its
\* Option entry: a flag of arity None in the step that meets it, a flag
\* that takes values in the step that ends the wait for them, whether that
\* is a value, another flag, `--` or the end of the input; the only other
\* way out of the wait is an error.
C33_NoFlagDiscarded ==
    /\ [][(RegularFlagMet /\ state'.tag # "AcceptingValue") =>
            (RecordsOption(arg) \/ ReturnsError)]_vars
    /\ [][(pc = "scan" /\ state.tag = "AcceptingValue") =>
            (RecordsOption(state.opt) \/ ReturnsError)]_vars

\* prepare has returned an error (run is only reached by a prepared parser)
PrepareFailed == pc = "done" /\ ~parser.is_prepared
\* the step in which prepare returns its error
FailingStep == pc \in {"idle", "scan"} /\ pc' = "done"
\* parser and tree are as they were constructed
NoTrace ==
    /\ chain = <<>>
    /\ parser.args = input
    /\ parser.command \in {RootName, StartName}
    /\ tree \in AppTrees

\* C34 as stated: whenever prepare returns an error, the chain, the
\* command, the token vector and every option value of the tree are what
\* they were before the call.
C34_FailureLeavesNoTrace == PrepareFailed => NoTrace

\* C34 amended: a failed prepare leaves the parser unprepared; the step
\* that returns the error commits no value, changes neither command nor
\* token vector, and appends nothing but the Argument entry of a positional
\* token refused after an option; what earlier steps of the call appended,
\* committed or replaced stays.  Only an error met before any entry, commit
\* or descent leaves no trace.
C34_FailureKeepsEarlierSteps ==
    /\ [][FailingStep =>
            /\ ~parser'.is_prepared
            /\ parser'.args = parser.args /\ parser'.command = parser.command
            /\ tree' = tree
            /\ \/ parser'.command_chain = chain
               \/ /\ result'.kind = "InvalidStateTransition"
                  /\ parser'.command_chain = Append(chain, ArgumentEntry(arg))]_vars
    /\ [][(FailingStep /\ NoTrace /\ result'.kind # "InvalidStateTransition") =>
            (PrepareFailed /\ NoTrace)']_vars
\* -o x -o: the value x was committed and recorded before the second -o
\* ended the input without a value
C34_Witness ==
    /\ PrepareFailed
    /\ input = <<oShort, Str0("x"), oShort>>
    /\ result = Err("MissingValue", oShort)
    /\ chain = <<OptionEntry(oShort, RequiredSingle(StrV(Str0("x"))))>>
    /\ RegistryValue(tree, <<>>, oShort) = RequiredSingle(StrV(Str0("x")))

\* ---- termination
\* prepare runs to its return once called: its steps are the steps of one
\* call stack, so a step that can be taken is taken
PrepareSteps ==
    \/ prepare_enter
    \/ scan_break
    \/ scan_after_break
    \/ scan_value
    \/ scan_preserved
    \/ scan_option
    \/ scan_subcommand
    \/ scan_unknown
    \/ scan_argument
    \/ prepare_finish
\* the tool with its optional arities, and with a flag and a counted run
TerminationTrees ==
    {ArityTree(OptionalSingleNone, OptionalMultipleNone(NoCount)),
     ArityTree(OptionalSingleSome(BoolV(FALSE)), RequiredMultiple(<<>>, 2))}
InitTermination ==
    /\ tree \in TerminationTrees
    /\ input \in SeqsUpTo(ArityTokens, MaxArgs)
    /\ parser = InputArgsParser_new(ToolName, input)
    /\ state = PS("Start")
    /\ i = 0
    /\ cur = <<>>
    /\ pc = "idle"
    /\ result = Unset
    /\ run_self = <<>>
    /\ run_parser = parser
    /\ invoked = <<>>
    /\ broke = FALSE
    /\ ops = 0
    /\ last_call = NoCall
SpecTermination == InitTermination /\ [][PrepareSteps]_vars /\ WF_vars(PrepareSteps)

\* a loop iteration of the same call that is followed by another one
Iterates == pc = "scan" /\ pc' = "scan" /\ cur' = cur
\* the step enters the recursive call for a subcommand
Descends == pc = "scan" /\ cur' # cur

\* C35: prepare terminates: the cursor never moves backward; an iteration
\* that does not advance it starts with an option awaiting its value and
\* ends in InOption, where the next iteration advances, so no token is
\* examined more than twice in a row; and each recursive call gets a
\* strictly shorter token vector.
C35_PrepareTerminates ==
    /\ [][Iterates => i' >= i]_vars
    /\ [][(Iterates /\ i' = i) =>
            (state.tag = "AcceptingValue" /\ state'.tag = "InOption")]_vars
    /\ [][(Iterates /\ state.tag # "AcceptingValue") => i' = i + 1]_vars
    /\ [][Descends =>
            (Len(parser'.args) < Len(parser.args) /\ i' = 0 /\ Len(cur') = Len(cur) + 1)]_vars
    /\ <>(pc \in {"dispatch", "done"})
\* -q -m -h run: -m ends the wait of -q and -h the wait of -m without moving
\* the cursor, each is examined a second time, and run descends with the
\* empty rest
C35_Witness ==
    /\ pc = "dispatch"
    /\ input = <<qShort, mShort, hShort, RunName>>
    /\ cur = <<RunName>> /\ parser.args = <<>>
    /\ chain = <<OptionEntry(qShort, OptionalSingleNone),
                 OptionEntry(mShort, OptionalMultipleNone(NoCount)),
                 IsPreservedOptionEntry(hShort),
                 SubCommandEntry(RunName)>>

\* ---- delegation and callback data
\* C36: every SubCommand entry of a chain produced by a successful prepare
\* names a child of the node reached through the SubCommand entries before
\* it, and the run that follows never returns UnknownCommand.
C36_SubCommandsExist ==
    /\ prepared =>
          \A k \in 1..Len(chain) :
              chain[k].kind = "SubCommand" =>
                  /\ NodeAt(chain, k) \in DOMAIN tree
                  /\ Append(NodeAt(chain, k), chain[k].tok) \in DOMAIN tree
    /\ finished => result.kind # "UnknownCommand"
    /\ (pc = "dispatch" /\ HasSubCommandEntry(run_chain)) =>
          Append(run_self, run_chain[first_subcommand(run_chain)].tok) \in DOMAIN tree
\* start job --flag x: run has delegated twice and called job's callback
C36_Witness ==
    /\ finished
    /\ chain = C4Chain
    /\ run_self = <<StartName, JobName>>
    /\ run_chain = <<OptionEntry(FlagLong, RequiredSingle(StrV(Str0("x"))))>>
    /\ result = Ok

\* the entries behind the last SubCommand entry of a chain
TerminalSegment(c) ==
    LET subs == {k \in 1..Len(c) : c[k].kind = "SubCommand"}
        last == IF subs = {} THEN 0 ELSE CHOOSE k \in subs : \A m \in subs : m <= k
    IN  SubSeq(c, last + 1, Len(c))
IsArgumentEntry(e) == e.kind = "Argument"
\* the tokens of the Argument entries of a segment, in order
ArgumentsOf(seg) ==
    LET picked == SelectSeq(seg, IsArgumentEntry)
    IN  [k \in 1..Len(picked) |-> picked[k].tok]

\* C37: the callback that run invokes is handed exactly the Argument
\* entries of the terminal node's segment, in token order; Argument
\* entries in front of a SubCommand entry are not handed to it.
C37_CallbackArguments ==
    finished =>
        \A k \in 1..Len(invoked) :
            /\ invoked[k].command = SubCommandPath(chain)
            /\ invoked[k].arguments = ArgumentsOf(TerminalSegment(chain))
\* x start -p 5: the argument x stands before the SubCommand entry and
\* start's callback gets no argument
C37_Witness ==
    /\ finished
    /\ input = <<Str0("x"), StartName, pShort, Str0("5")>>
    /\ chain[1] = ArgumentEntry(Str0("x")) /\ chain[2] = SubCommandEntry(StartName)
    /\ invoked = <<FliCallbackData(<<StartName>>, <<>>, "start_main")>>

\* ---- marks and tables
\* C38: marks are not copied: a node made by subcommand() starts with an
\* empty inheritable list, whatever was marked on its parent, so each
\* registered option it starts with is a copy of one that was marked on the
\* parent itself when it was made, and a flag of the parent that belongs
\* neither to a marked option nor to the help option is unknown to it; a
\* grandchild therefore lacks what was marked on the root only.
C38_MarksNotCopied ==
    [][last_call'.op = "subcommand" =>
        LET registry == tree[last_call'.path].option_parser
            made == tree'[created].option_parser
        IN  /\ made.inheritable_flags = <<>>
            /\ \A m \in 1..Len(made.options) :
                  made.options[m].name # "help" =>
                      \E k \in 1..Len(registry.options) :
                          Marked(registry, k) /\ registry.options[k] = made.options[m]
            /\ \A k \in 1..Len(registry.options) :
                  \A f \in {registry.options[k].short_flag, registry.options[k].long_flag} :
                      ~CarriedFlag(registry, f) => ~has_option(made, f)]_vars
\* -a was marked on the root, c1 inherited it unmarked, and c2 made from c1
\* does not have it
C38_Witness ==
    /\ <<Str0("c1"), Str0("c2")>> \in DOMAIN tree
    /\ last_call = Call("subcommand", <<Str0("c1")>>, Str0("c2"))
    /\ Marked(tree[<<>>].option_parser, 2)
    /\ tree[<<>>].option_parser.options[2].short_flag = aShort
    /\ has_option(tree[<<Str0("c1")>>].option_parser, aShort)
    /\ tree[<<Str0("c1")>>].option_parser.inheritable_flags = <<>>
    /\ ~has_option(tree[<<Str0("c1"), Str0("c2")>>].option_parser, aShort)
    /\ ~has_option(tree[<<Str0("c1"), Str0("c2")>>].option_parser, AllLong)

\* the flags of the preserved table of a node
TableFlags(node) == (DOMAIN node.preserved_short_flags) \cup (DOMAIN node.preserved_long_flags)
\* the flag pair the preserved table resolves a flag to
PreservedPair(node, f) ==
    LET idx == IF f \in DOMAIN node.preserved_short_flags
               THEN node.preserved_short_flags[f] ELSE node.preserved_long_flags[f]
    IN  <<node.preserved_options[idx + 1].short_flag, node.preserved_options[idx + 1].long_flag>>
\* the flag pair the regular registry resolves a flag to
RegistryPair(node, f) ==
    LET o == node.option_parser.options[LastWith(node.option_parser, f) + 1]
    IN  <<o.short_flag, o.long_flag>>
Root == tree[<<>>]
TablesCall == pc = "tables" /\ ops' = ops + 1

\* C39 as stated: after any sequence of add_option and
\* add_option_with_callback calls every flag of the preserved table is a
\* flag of the regular registry, and table and registry resolve it to the
\* same pair of short and long flag.
C39_TablesAgree ==
    pc = "tables" =>
        \A f \in TableFlags(Root) :
            /\ IsRegisteredFlag(Root.option_parser, f)
            /\ PreservedPair(Root, f) = RegistryPair(Root, f)

\* C39 amended: every flag of the preserved table is a flag of the regular
\* registry; the registry resolves a flag to the option registered last
\* with it by either call, the preserved table to the one registered last
\* with it by add_option_with_callback; so the two agree on a flag right
\* after an add_option_with_callback with it and may disagree after an
\* add_option with it, and a call changes nothing for the other flags.
C39_TablesFollowRegistrations ==
    /\ [](pc = "tables" =>
            \A f \in TableFlags(Root) :
                IsRegisteredFlag(Root.option_parser, f) /\ has_option(Root.option_parser, f))
    /\ [][TablesCall =>
            \A f \in TableFlags(Root') :
                IF f \in {input'[1], input'[2]}
                THEN /\ RegistryPair(Root', f) = <<input'[1], input'[2]>>
                     /\ PreservedPair(Root', f) =
                            IF last_call'.op = "add_option_with_callback"
                            THEN <<input'[1], input'[2]>>
                            ELSE PreservedPair(Root, f)
                ELSE /\ f \in TableFlags(Root)
                     /\ RegistryPair(Root', f) = RegistryPair(Root, f)
                     /\ PreservedPair(Root', f) = PreservedPair(Root, f)]_vars
\* add_option(host, -h, --host) on the root: -h is the help option in the
\* preserved table and the host option in the registry
C39_Witness ==
    /\ pc = "tables"
    /\ last_call = Call("add_option", <<>>, hShort)
    /\ PreservedPair(Root, hShort) = <<hShort, S(2, "help")>>
    /\ RegistryPair(Root, hShort) = <<hShort, S(2, "host")>>

====
